---- MODULE Spec2Model ----
(***************************************************************************)
(* A model of the free-list recycling layer (pycore_freelist.h), the small *)
(* object allocator built on it (pycore_object_alloc.h) and the stack      *)
(* reference operations (pycore_stackref.h).                               *)
(*                                                                         *)
(* Memory is a set of blocks.  Every block has a base address; the word at *)
(* an address is memword[a] (the first word of whatever lives there: the   *)
(* intrusive next pointer of a free-list entry, or ob_refcnt of an object) *)
(* and memtype[a] is the word after it (ob_type of an object).             *)
(***************************************************************************)
EXTENDS Integers, Sequences, FiniteSets, Bags, TLC

\* ------------------------------------------------------------------ bounds
\* Largest capacity a free list is initialised with.
MaxCapacity == 2

\* ---------------------------------------------------------------- constants
NULL == 0
SMALL_REQUEST_THRESHOLD == 512
ALIGNMENT_SHIFT == 4
NB_SMALL_SIZE_CLASSES == 32

\* One more block than the largest capacity, so that a full list still
\* leaves the caller a block to push.
NBlocks == MaxCapacity + 1
Blocks == 1..NBlocks
\* Blocks are laid out far enough apart that no two objects overlap.
BlockStride == 2 * SMALL_REQUEST_THRESHOLD
Base(b) == b * BlockStride
BlockAddrs == {Base(b) : b \in Blocks}
\* presize values used by callers: no pre-header, or a two-word pre-header.
Presizes == {0, 16}
Addrs == {a + p : a \in BlockAddrs, p \in Presizes}

VARIABLES
    memword,    \* [Addrs -> Int]: the word stored at each address
    memtype,    \* [Addrs -> Int]: the word after it (ob_type)
    fl,         \* one struct _Py_freelist: [freelist, available, capacity]
    held,       \* block addresses the caller currently owns
    streak,     \* Push calls since _PyFreeList_Init with no Pop between, -1 once a Pop happened
    pushed,     \* blocks pushed successfully since _PyFreeList_Init
    assertion,  \* "none", or what stopped the program: the assert() that failed, or "invalid read"
    last,       \* the last call: its name, arguments, result and the state before it
    build,      \* "nogil" (Py_GIL_DISABLED) or "gil": fixed when the program is built
    ob_refcnt,  \* [Objects -> Int]: the reference count of each object
    dealloc,    \* [Objects -> Nat]: how often _Py_Dealloc ran on each object
    owned,      \* [Objects -> Nat]: strong PyObject* references held by C callers
    stack,      \* [Slots -> bits]: the _PyStackRef in each stack slot
    trail,      \* the counts of one object after each call of its life so far, while the calls follow Lifecycle
    by_size,    \* [size class -> struct _Py_freelist]: _Py_freelists.by_size
    pool,       \* [BlockAddrs -> Nat]: times each block is on the backing allocator's free list
    live,       \* bag of [addr, presize, size]: the objects callers hold
    recyc,      \* [size class -> Seq(address)]: freed objects whose block was retained and not handed out since, oldest first
    scen,       \* frees of one shape onto an empty list, then allocations of it
    corrupt,    \* how often the backing allocator entered a block it already held
    current_object_heap, \* [Threads -> heap]: mimalloc.current_object_heap of each thread state
    calls,      \* [Threads -> Seq(call)]: the typed allocation calls in progress on each thread, innermost last
    freelists,  \* [0..NThreads -> struct _Py_freelists]: the container of the interpreter (0) and of each thread state
    pushedby,   \* [BlockAddrs -> 0..NThreads]: the thread whose call put the block on a free list, 0 when it is on none
    _log_bytes_written, \* the bytes of _log in use: where the next log line is written
    _trace_file,        \* TRUE while the trace file is open (the FILE * is not NULL)
    _endtime_pos,       \* the file position of the "end clock" header line, -1 before _PyPerf_TraceInit
    perfpc      \* "idle", or the loop the running _PyPerf call is in

memVars == <<memword, memtype>>
flVars == <<fl, held, streak, pushed>>
refVars == <<build, ob_refcnt, dealloc, owned, stack, trail>>
allocVars == <<by_size, pool, live, recyc, scen, corrupt>>
thrVars == <<freelists, pushedby>>
tstateVars == <<current_object_heap, calls, thrVars>>
perfVars == <<_log_bytes_written, _trace_file, _endtime_pos, perfpc>>
vars == <<memword, memtype, fl, held, streak, pushed, assertion, last, trail,
          build, ob_refcnt, dealloc, owned, stack,
          by_size, pool, live, recyc, scen, corrupt,
          current_object_heap, calls, freelists, pushedby,
          _log_bytes_written, _trace_file, _endtime_pos, perfpc>>

\* ------------------------------------------------------- pycore_freelist.h

\* _PyFreeList_Size
_PyFreeList_Size(f) == f.capacity - f.available

\* _PyFreeList_Init that marks no slot available.
Init_NoneAvailable(capacity) ==
    [freelist |-> NULL, available |-> 0, capacity |-> capacity]

\* _PyFreeList_Init: the list is empty and every slot is available.
_PyFreeList_Init(capacity) ==
    [freelist |-> NULL, available |-> capacity, capacity |-> capacity]

\* _PyFreeList_Push without its test of fl->available.
Push_NoAvailableCheck(f, mw, obj) ==
    [fl  |-> [f EXCEPT !.freelist = obj, !.available = @ - 1],
     mw  |-> [mw EXCEPT ![obj] = f.freelist],
     ret |-> 1]

\* _PyFreeList_Push that forgets to count the slot it used.
Push_NoDecrement(f, mw, obj) ==
    IF f.available # 0
    THEN [fl  |-> [f EXCEPT !.freelist = obj],
          mw  |-> [mw EXCEPT ![obj] = f.freelist],
          ret |-> 1]
    ELSE [fl |-> f, mw |-> mw, ret |-> 0]

\* _PyFreeList_Push that links the block behind the head of a non-empty list.
Push_Behind(f, mw, obj) ==
    IF f.available = 0 THEN [fl |-> f, mw |-> mw, ret |-> 0]
    ELSE IF f.freelist = NULL
    THEN [fl |-> [f EXCEPT !.freelist = obj, !.available = @ - 1],
          mw |-> [mw EXCEPT ![obj] = NULL], ret |-> 1]
    ELSE [fl |-> [f EXCEPT !.available = @ - 1],
          mw |-> [mw EXCEPT ![obj] = mw[f.freelist], ![f.freelist] = obj],
          ret |-> 1]

\* _PyFreeList_Push: link obj in front of the list through its first word.
\* (available is a uint32_t; the guard keeps the decrement from wrapping.)
_PyFreeList_Push(f, mw, obj) ==
    IF f.available # 0
    THEN [fl  |-> [f EXCEPT !.freelist = obj, !.available = @ - 1],
          mw  |-> [mw EXCEPT ![obj] = f.freelist],
          ret |-> 1]
    ELSE [fl |-> f, mw |-> mw, ret |-> 0]

\* _PyFreeList_PopNoStats that leaves the head where it was.
PopNoStats_KeepHead(f, mw) ==
    LET obj == f.freelist IN
    IF obj # NULL
    THEN [fl  |-> [f EXCEPT !.available = @ + 1],
          ret |-> obj,
          ok  |-> IF f.capacity = 0 THEN "capacity > 0"
                  ELSE IF f.available + 1 > f.capacity THEN "available <= capacity"
                  ELSE "none"]
    ELSE [fl |-> f, ret |-> NULL, ok |-> "none"]

\* _PyFreeList_PopNoStats that counts a slot back even when the list is empty.
PopNoStats_CountEmpty(f, mw) ==
    LET obj == f.freelist IN
    IF obj # NULL
    THEN [fl  |-> [f EXCEPT !.freelist = mw[obj], !.available = @ + 1],
          ret |-> obj,
          ok  |-> IF f.capacity = 0 THEN "capacity > 0"
                  ELSE IF f.available + 1 > f.capacity THEN "available <= capacity"
                  ELSE "none"]
    ELSE [fl |-> [f EXCEPT !.available = @ + 1], ret |-> NULL, ok |-> "none"]

\* _PyFreeList_PopNoStats: unlink the head.  ok names the assert() that
\* fails, if one does: assert(fl->capacity > 0) before the update and
\* assert(fl->available <= fl->capacity) after it.  A head that is no
\* address of the memory cannot be read: the program crashes.
_PyFreeList_PopNoStats(f, mw) ==
    LET obj == f.freelist IN
    IF obj # NULL /\ obj \notin DOMAIN mw
    THEN [fl |-> f, ret |-> NULL, ok |-> "invalid read"]
    ELSE IF obj # NULL
    THEN [fl  |-> [f EXCEPT !.freelist = mw[obj], !.available = @ + 1],
          ret |-> obj,
          ok  |-> IF f.capacity = 0 THEN "capacity > 0"
                  ELSE IF f.available + 1 > f.capacity THEN "available <= capacity"
                  ELSE "none"]
    ELSE [fl |-> f, ret |-> NULL, ok |-> "none"]

\* _Py_NewReference(op), as far as the memory words go: ob_refcnt = 1.
_Py_NewReference(mw, op) == [mw EXCEPT ![op] = 1]

\* _PyFreeList_Pop: PopNoStats, then _Py_NewReference on a block that was found.
_PyFreeList_Pop(f, mw) ==
    LET r == _PyFreeList_PopNoStats(f, mw) IN
    [fl |-> r.fl, ret |-> r.ret, ok |-> r.ok,
     mw |-> IF r.ret # NULL THEN _Py_NewReference(mw, r.ret) ELSE mw]

\* _PyFreeList_PopMem: PopNoStats (the statistics are not modelled).
_PyFreeList_PopMem(f, mw) ==
    LET r == _PyFreeList_PopNoStats(f, mw) IN
    [fl |-> r.fl, ret |-> r.ret, ok |-> r.ok, mw |-> mw]

\* _PyFreeList_Free that releases the block whatever Push answered.
Free_AlwaysRelease(f, mw, obj) ==
    LET r == _PyFreeList_Push(f, mw, obj) IN
    [fl |-> r.fl, mw |-> r.mw, dofree |-> <<obj>>]

\* _PyFreeList_Free: push, and call dofree(obj) when the list is full.
\* dofree is the sequence of the arguments dofree was called with.
_PyFreeList_Free(f, mw, obj) ==
    LET r == _PyFreeList_Push(f, mw, obj) IN
    [fl |-> r.fl, mw |-> r.mw,
     dofree |-> IF r.ret = 0 THEN <<obj>> ELSE <<>>]

\* The stack-reference state of a program that uses no stack reference.
RefIdle ==
    /\ build = "gil"
    /\ ob_refcnt = <<>>
    /\ dealloc = <<>>
    /\ owned = <<>>
    /\ stack = <<>>
    /\ trail = <<>>

\* The thread states of a program that makes no typed allocation.
TstateIdle ==
    /\ current_object_heap = <<>>
    /\ calls = <<>>
    /\ freelists = <<>>
    /\ pushedby = <<>>

\* The trace logger of a program that never traces.
PerfIdle ==
    /\ _log_bytes_written = 0
    /\ _trace_file = FALSE
    /\ _endtime_pos = 0 - 1
    /\ perfpc = "idle"

\* The free-list state of a program that frees nothing.
FLIdle ==
    /\ fl = _PyFreeList_Init(0)
    /\ held = {}
    /\ streak = 0
    /\ pushed = {}

\* The allocator state of a program that allocates nothing.
AllocIdle ==
    /\ by_size = <<>>
    /\ pool = <<>>
    /\ live = <<>>
    /\ recyc = <<>>
    /\ scen = <<>>
    /\ corrupt = <<>>

\* ----------------------------------------------- one free list and its caller

\* The streak of Push calls after Init, saturating one past "list full + 1".
NextStreak == IF streak < 0 THEN -1
              ELSE IF streak > fl.capacity THEN fl.capacity + 2
              ELSE streak + 1

FLInit ==
    /\ PerfIdle
    /\ \E c \in 0..MaxCapacity : fl = _PyFreeList_Init(c)
    /\ memword = [a \in Addrs |-> 0]
    /\ memtype = [a \in Addrs |-> 0]
    /\ held = BlockAddrs
    /\ streak = 0
    /\ pushed = {}
    /\ assertion = "none"
    /\ last = [op |-> "Init"]
    /\ RefIdle
    /\ AllocIdle
    /\ TstateIdle

\* A caller re-initialises the list; blocks still on it are leaked.
DoInit ==
    /\ assertion = "none"
    /\ \E c \in 0..MaxCapacity :
         /\ fl' = _PyFreeList_Init(c)
         /\ last' = [op |-> "Init", capacity |-> c]
    /\ streak' = 0
    /\ pushed' = {}
    /\ UNCHANGED <<perfVars, memword, memtype, held, assertion, refVars, allocVars,
                   tstateVars>>

\* _Py_FREELIST_PUSH(NAME, op) on a block the caller owns.
DoPush ==
    /\ assertion = "none"
    /\ \E obj \in held :
         LET r == _PyFreeList_Push(fl, memword, obj) IN
         /\ fl' = r.fl
         /\ memword' = r.mw
         /\ held' = IF r.ret = 1 THEN held \ {obj} ELSE held
         /\ pushed' = IF r.ret = 1 THEN pushed \cup {obj} ELSE pushed
         /\ last' = [op |-> "Push", obj |-> obj, ret |-> r.ret, pre |-> fl,
                     preword |-> memword[obj], streak |-> NextStreak]
    /\ streak' = NextStreak
    /\ UNCHANGED <<perfVars, memtype, assertion, refVars, allocVars,
                   tstateVars>>

\* _Py_FREELIST_FREE(NAME, op, freefunc) on a block the caller owns.
DoFree ==
    /\ assertion = "none"
    /\ \E obj \in held :
         LET r == _PyFreeList_Free(fl, memword, obj) IN
         /\ fl' = r.fl
         /\ memword' = r.mw
         /\ held' = held \ {obj}
         /\ pushed' = IF r.dofree = <<>> THEN pushed \cup {obj} ELSE pushed
         /\ last' = [op |-> "Free", obj |-> obj, dofree |-> r.dofree, pre |-> fl,
                     preword |-> memword[obj]]
    /\ streak' = NextStreak
    /\ UNCHANGED <<perfVars, memtype, assertion, refVars, allocVars,
                   tstateVars>>

\* The bookkeeping shared by the three Pop entry points.
PopStep(name, r) ==
    /\ fl' = r.fl
    /\ memword' = r.mw
    /\ assertion' = r.ok
    /\ held' = IF r.ret # NULL THEN held \cup {r.ret} ELSE held
    /\ last' = [op |-> name, ret |-> r.ret, pre |-> fl,
                preword |-> IF fl.freelist # NULL THEN memword[fl.freelist] ELSE NULL,
                streak |-> streak, pushed |-> pushed]
    /\ streak' = -1
    /\ UNCHANGED <<perfVars, memtype, pushed, refVars, allocVars,
                   tstateVars>>

\* _Py_FREELIST_POP_MEM(NAME)
DoPopMem ==
    /\ assertion = "none"
    /\ PopStep("PopMem", _PyFreeList_PopMem(fl, memword))

\* _Py_FREELIST_POP(TYPE, NAME)
DoPop ==
    /\ assertion = "none"
    /\ PopStep("Pop", _PyFreeList_Pop(fl, memword))

FLNext == DoInit \/ DoPush \/ DoFree \/ DoPopMem \/ DoPop

Spec == FLInit /\ [][FLNext]_vars

\* --------------------------------------------------- pycore_object_alloc.h

\* How often, in one run, the backing allocator enters a block on its free
\* list that is there already; further such releases it ignores.
MaxCorrupt == 1
\* Callers hold at most this many objects at a time.
MaxLive == 3
\* The capacity of the size class in the recycling scenario.
ScenCapacity == MaxCapacity

Types == {"TypeA", "TypeB"}
\* <<presize, size>> of the objects callers allocate: two small shapes of one
\* size class, with and without a pre-header, and one shape above
\* SMALL_REQUEST_THRESHOLD.
Requests == {<<0, 32>>, <<16, 16>>, <<16, 512>>}
SizeClasses == 0..(NB_SMALL_SIZE_CLASSES - 1)

Min(a, b) == IF a < b THEN a ELSE b
Range(q) == {q[i] : i \in DOMAIN q}
\* The block an address lies in.
BlockOf(a) == a - (a % BlockStride)
\* q without its last address in block blk.
RemoveLast(q, blk) ==
    IF \A i \in DOMAIN q : BlockOf(q[i]) # blk THEN q
    ELSE LET k == CHOOSE i \in DOMAIN q :
                     /\ BlockOf(q[i]) = blk
                     /\ \A j \in DOMAIN q : BlockOf(q[j]) = blk => j <= i
         IN SubSeq(q, 1, k - 1) \o SubSeq(q, k + 1, Len(q))

\* (size - 1) >> ALIGNMENT_SHIFT
SizeClass(size) == (size - 1) \div (2 ^ ALIGNMENT_SHIFT)

\* The backing allocator.  PyObject_Malloc answers NULL or a block of its
\* free list; its release enters the block on the free list.  Releasing a
\* block that is on the list already is undefined: the allocator ignores the
\* call, or (again) enters the block once more and will hand it out twice.
RawAllocAnswers(pl) == {NULL} \cup {b \in BlockAddrs : pl[b] > 0}
RawFree(pl, mem, again) ==
    [pl EXCEPT ![mem] = IF @ = 0 THEN 1
                        ELSE IF again /\ @ <= MaxCorrupt THEN @ + 1 ELSE @]

\* _PyObject_Init(op, tp): Py_SET_TYPE and _Py_NewReference.
_PyObject_Init(mw, mt, op, tp) ==
    [mw |-> _Py_NewReference(mw, op), mt |-> [mt EXCEPT ![op] = tp]]

\* ts->interp->alloc(tp, presize, size): one request to the backing allocator
\* (mem is its answer); NULL is reported as out of memory, a block becomes a
\* fresh object at mem + presize.
InterpAlloc(mw, mt, pl, tp, presize, size, mem) ==
    IF mem = NULL
    THEN [mw |-> mw, mt |-> mt, pool |-> pl, ret |-> NULL, nalloc |-> 1]
    ELSE LET i == _PyObject_Init(mw, mt, mem + presize, tp) IN
         [mw |-> i.mw, mt |-> i.mt, pool |-> [pl EXCEPT ![mem] = @ - 1],
          ret |-> mem + presize, nalloc |-> 1]

\* ts->interp->free(obj, presize): the block of obj goes back to the backing
\* allocator.
InterpFree(pl, obj, presize, again) == RawFree(pl, obj - presize, again)

\* _PyObject_NewTstate that never looks at the free list.
NewTstate_SkipFreeList(bs, mw, mt, pl, tp, presize, size0, mem) ==
    LET a == InterpAlloc(mw, mt, pl, tp, presize, size0 + presize, mem) IN
    [by_size |-> bs, mw |-> a.mw, mt |-> a.mt, pool |-> a.pool,
     ret |-> a.ret, nalloc |-> a.nalloc, ok |-> "none"]

\* _PyObject_NewTstate that asks the backing allocator again after a failure.
NewTstate_Retry(bs, mw, mt, pl, tp, presize, size0, mem) ==
    LET size == size0 + presize
        small == size <= SMALL_REQUEST_THRESHOLD
        size_cls == SizeClass(size)
        r == _PyFreeList_Pop(bs[size_cls], mw)
    IN  IF small /\ r.ret # NULL
        THEN [by_size |-> [bs EXCEPT ![size_cls] = r.fl],
              mw |-> [r.mw EXCEPT ![r.ret + presize] = 1],
              mt |-> [mt EXCEPT ![r.ret + presize] = tp],
              pool |-> pl, ret |-> r.ret + presize, nalloc |-> 0, ok |-> r.ok]
        ELSE LET a == InterpAlloc(mw, mt, pl, tp, presize, size, mem) IN
             [by_size |-> IF small THEN [bs EXCEPT ![size_cls] = r.fl] ELSE bs,
              mw |-> a.mw, mt |-> a.mt, pool |-> a.pool, ret |-> a.ret,
              nalloc |-> IF a.ret = NULL THEN 2 ELSE 1,
              ok |-> IF small THEN r.ok ELSE "none"]

\* _PyObject_NewTstate: a small request is served from the free list of its
\* size class when that list has a block; everything else goes to
\* ts->interp->alloc (nothing after that return statement is executed).
\* mem is what the backing allocator answers, should it be asked.
_PyObject_NewTstate(bs, mw, mt, pl, tp, presize, size0, mem) ==
    LET size == size0 + presize
        small == size <= SMALL_REQUEST_THRESHOLD
        size_cls == SizeClass(size)
        r == _PyFreeList_Pop(bs[size_cls], mw)
    IN  IF small /\ r.ret # NULL
        THEN [by_size |-> [bs EXCEPT ![size_cls] = r.fl],
              mw |-> [r.mw EXCEPT ![r.ret + presize] = 1],
              mt |-> [mt EXCEPT ![r.ret + presize] = tp],
              pool |-> pl, ret |-> r.ret + presize, nalloc |-> 0, ok |-> r.ok]
        ELSE LET a == InterpAlloc(mw, mt, pl, tp, presize, size, mem) IN
             [by_size |-> IF small THEN [bs EXCEPT ![size_cls] = r.fl] ELSE bs,
              mw |-> a.mw, mt |-> a.mt, pool |-> a.pool, ret |-> a.ret,
              nalloc |-> a.nalloc,
              ok |-> IF small THEN r.ok ELSE "none"]

\* _PyMem_FreeTstate that picks the size class from size without presize.
FreeTstate_ClassOfSize(bs, mw, pl, obj, presize, size0, again) ==
    LET size == size0 + presize
        mem == obj - presize
        small == size <= SMALL_REQUEST_THRESHOLD
        size_cls == SizeClass(size0)
        r == _PyFreeList_Push(bs[size_cls], mw, mem)
    IN  IF small /\ r.ret = 1
        THEN [by_size |-> [bs EXCEPT ![size_cls] = r.fl], mw |-> r.mw,
              pool |-> pl, released |-> <<>>]
        ELSE [by_size |-> IF small THEN [bs EXCEPT ![size_cls] = r.fl] ELSE bs,
              mw |-> IF small THEN r.mw ELSE mw,
              pool |-> RawFree(InterpFree(pl, obj, presize, again), mem, again),
              released |-> <<obj - presize, mem>>]

\* _PyMem_FreeTstate: a small block is pushed on the free list of its size
\* class; when that is refused, or the block is large, ts->interp->free and
\* then the standard object allocator's free are called.  released lists the
\* blocks handed to the backing allocator's release, in call order.
_PyMem_FreeTstate(bs, mw, pl, obj, presize, size0, again) ==
    LET size == size0 + presize
        mem == obj - presize
        small == size <= SMALL_REQUEST_THRESHOLD
        size_cls == SizeClass(size)
        r == _PyFreeList_Push(bs[size_cls], mw, mem)
    IN  IF small /\ r.ret = 1
        THEN [by_size |-> [bs EXCEPT ![size_cls] = r.fl], mw |-> r.mw,
              pool |-> pl, released |-> <<>>]
        ELSE [by_size |-> IF small THEN [bs EXCEPT ![size_cls] = r.fl] ELSE bs,
              mw |-> IF small THEN r.mw ELSE mw,
              pool |-> RawFree(InterpFree(pl, obj, presize, again), mem, again),
              released |-> <<obj - presize, mem>>]

\* _PyObject_FreeTstate: _PyMem_FreeTstate without a pre-header.
_PyObject_FreeTstate(bs, mw, pl, obj, size, again) ==
    _PyMem_FreeTstate(bs, mw, pl, obj, 0, size, again)

\* ------------------------------------------------ the allocator and its callers

NoScen == [key |-> <<>>, freed |-> <<>>, rel |-> <<>>, got |-> <<>>]
Small(rq) == rq[1] + rq[2] <= SMALL_REQUEST_THRESHOLD
ClassOf(rq) == SizeClass(rq[1] + rq[2])
ListEmpty(f) == f.freelist = NULL /\ f.available = f.capacity

AllocInit ==
    /\ PerfIdle
    /\ \E c \in 0..MaxCapacity :
         by_size = [k \in SizeClasses |-> _PyFreeList_Init(c)]
    /\ pool = [b \in BlockAddrs |-> 1]
    /\ live = EmptyBag
    /\ recyc = [k \in SizeClasses |-> <<>>]
    /\ scen = NoScen
    /\ corrupt = 0
    /\ memword = [a \in Addrs |-> 0]
    /\ memtype = [a \in Addrs |-> "none"]
    /\ assertion = "none"
    /\ last = [op |-> "Start"]
    /\ FLIdle
    /\ RefIdle
    /\ TstateIdle

\* op = _PyObject_NewTstate(ts, tp, presize, size), for a request of Rq.
NewCall(Rq) ==
    /\ assertion = "none"
    /\ \E tp \in Types, rq \in Rq, mem \in RawAllocAnswers(pool) :
         LET r == _PyObject_NewTstate(by_size, memword, memtype, pool,
                                      tp, rq[1], rq[2], mem)
             blk == r.ret - rq[1]
         IN
         /\ by_size' = r.by_size
         /\ memword' = r.mw
         /\ memtype' = r.mt
         /\ pool' = r.pool
         /\ assertion' = r.ok
         /\ live' = IF r.ret = NULL THEN live
                    ELSE live (+) SetToBag({[addr |-> r.ret, presize |-> rq[1],
                                             size |-> rq[2]]})
         /\ recyc' = IF r.ret # NULL /\ r.nalloc = 0
                     THEN [recyc EXCEPT ![ClassOf(rq)] = RemoveLast(@, blk)]
                     ELSE recyc
         /\ scen' = IF scen.key = rq /\ Len(scen.freed) = ScenCapacity + 1
                                    /\ Len(scen.got) <= ScenCapacity
                    THEN [scen EXCEPT !.got =
                            Append(@, [ret |-> r.ret, nalloc |-> r.nalloc])]
                    ELSE NoScen
         /\ last' = [op |-> "New", tp |-> tp, presize |-> rq[1], size |-> rq[2],
                     ret |-> r.ret, nalloc |-> r.nalloc]
    /\ UNCHANGED <<perfVars, corrupt, flVars, refVars,
                   tstateVars>>

AllocNew ==
    /\ BagCardinality(live) < MaxLive
    /\ NewCall(Requests)

\* The fields of an object die with it: of its block the model keeps the
\* word the free list wrote and forgets the rest.
Forget(m, blk, keep, v) ==
    [a \in DOMAIN m |->
        IF a # keep /\ (\E p \in Presizes : a = blk + p) THEN v ELSE m[a]]

\* _PyMem_FreeTstate(ts, obj, presize, size) on an object a caller holds.
AllocFree ==
    /\ assertion = "none"
    /\ \E o \in BagToSet(live), again \in BOOLEAN :
         LET rq == <<o.presize, o.size>>
             blk == o.addr - o.presize
             r == _PyMem_FreeTstate(by_size, memword, pool, o.addr, o.presize,
                                    o.size, again)
         IN
         /\ again => corrupt < MaxCorrupt /\ r.pool[blk] > 1 /\ r.pool[blk] > pool[blk]
         /\ by_size' = r.by_size
         /\ memword' = Forget(r.mw, blk, IF r.released = <<>> THEN blk ELSE NULL, 0)
         /\ memtype' = Forget(memtype, blk, NULL, "none")
         /\ pool' = r.pool
         /\ corrupt' = IF again THEN corrupt + 1 ELSE corrupt
         /\ live' = live (-) SetToBag({o})
         /\ recyc' = IF r.released = <<>>
                     THEN [recyc EXCEPT ![ClassOf(rq)] = Append(@, o.addr)]
                     ELSE recyc
         /\ scen' = IF /\ scen.key = rq
                       /\ scen.got = <<>>
                       /\ Len(scen.freed) <= ScenCapacity
                       /\ o.addr \notin Range(scen.freed)
                    THEN [scen EXCEPT !.freed = Append(@, o.addr),
                                      !.rel = Append(@, Len(r.released))]
                    ELSE IF Small(rq) /\ ListEmpty(by_size[ClassOf(rq)])
                    THEN [key |-> rq, freed |-> <<o.addr>>,
                          rel |-> <<Len(r.released)>>, got |-> <<>>]
                    ELSE NoScen
         /\ last' = [op |-> "Free", obj |-> o.addr, presize |-> o.presize,
                     size |-> o.size, released |-> r.released]
    /\ UNCHANGED <<perfVars, assertion, flVars, refVars,
                   tstateVars>>

AllocNext == AllocNew \/ AllocFree

SpecAlloc == AllocInit /\ [][AllocNext]_vars

\* The allocator under requests of many total sizes: the ends of the first
\* two size classes, the last small size, and sizes above
\* SMALL_REQUEST_THRESHOLD, with and without a pre-header.
MaxSized == 1
SizeRequests ==
    {<<0, 1>>, <<0, 16>>, <<0, 17>>, <<0, 32>>, <<16, 16>>,
     <<0, SMALL_REQUEST_THRESHOLD>>, <<16, SMALL_REQUEST_THRESHOLD - 16>>,
     <<0, SMALL_REQUEST_THRESHOLD + 1>>, <<16, SMALL_REQUEST_THRESHOLD>>}

SizeNew ==
    /\ BagCardinality(live) < MaxSized
    /\ NewCall(SizeRequests)

SizeNext == SizeNew \/ AllocFree

SpecSize == AllocInit /\ [][SizeNext]_vars

\* ------------------------------------------------------- pycore_stackref.h

\* Stack slots a frame uses, strong references C callers hold on one object,
\* and the number of times one address is reused for a new object.
NSlots == 2
MaxOwned == 2
MaxLives == 2

Slots == 1..NSlots
MortalObj == Base(1)
ImmortalObj == Base(2)
DeferredObj == Base(3)
Objects == {MortalObj, ImmortalObj, DeferredObj}
Builds == {"nogil", "gil"}

\* The count an immortal object carries; no operation of a correct program
\* changes it.
_Py_IMMORTAL_INITIAL_REFCNT == 5 * (2 ^ 28)
\* The bias the count of an object with deferred reference counting carries
\* (Py_GIL_DISABLED only): Py_DECREF never brings such an object to zero.
_Py_REF_DEFERRED == 2 ^ 27
_Py_IsImmortal(obj) == obj = ImmortalObj
_PyObject_HasDeferredRefcount(obj) == obj = DeferredObj

Py_TAG_BITS == 1
Py_TAG_DEFERRED == 1
Py_TAG_PTR == 0
Py_TAG_REFCNT == 1

\* bits & Py_TAG_BITS, bits & ~Py_TAG_BITS and ptr | tag on a word whose
\* only low bit in use is bit 0.
TagOf(bits) == bits % 2
Untagged(bits) == bits - (bits % 2)
WithTag(ptr, tag) == IF ptr % 2 = 1 THEN ptr ELSE ptr + tag

\* PyStackRef_NULL: Py_TAG_DEFERRED without GIL, PyStackRef_NULL_BITS with it.
PyStackRef_NULL(b) == IF b = "nogil" THEN Py_TAG_DEFERRED ELSE Py_TAG_REFCNT
PyStackRef_IsNull(b, ref) == ref = PyStackRef_NULL(b)

\* PyStackRef_True, PyStackRef_False and PyStackRef_None: the address of an
\* immortal singleton with the tag set (ImmortalObj stands for the three).
PyStackRef_True(b) ==
    WithTag(ImmortalObj, IF b = "nogil" THEN Py_TAG_DEFERRED ELSE Py_TAG_REFCNT)

\* PyStackRef_IsDeferred (Py_GIL_DISABLED) and PyStackRef_HasCount (with GIL)
PyStackRef_IsDeferred(ref) == TagOf(ref) = Py_TAG_DEFERRED
PyStackRef_HasCount(ref) == TagOf(ref) = Py_TAG_REFCNT

\* PyStackRef_AsPyObjectBorrow that hands out the bits as they are.
Borrow_NoMask(ref) == ref

\* PyStackRef_AsPyObjectBorrow, BITS_TO_PTR_MASKED and BITS_TO_PTR
PyStackRef_AsPyObjectBorrow(ref) == Untagged(ref)
BITS_TO_PTR_MASKED(ref) == Untagged(ref)
BITS_TO_PTR(ref) == ref

\* PyStackRef_Is that compares the words as they are.
Is_RawBits(a, b) == a = b

\* PyStackRef_Is(a, b): (a.bits & ~Py_TAG_BITS) == (b.bits & ~Py_TAG_BITS)
PyStackRef_Is(a, b) == (a - TagOf(a)) = (b - TagOf(b))

\* The object system's count operations on a heap h = [rc, dl]: the counts
\* and the number of _Py_Dealloc calls per object.
Py_INCREF_MORTAL(h, obj) == [h EXCEPT !.rc[obj] = @ + 1]
Py_INCREF(h, obj) == IF _Py_IsImmortal(obj) THEN h ELSE Py_INCREF_MORTAL(h, obj)
Py_DECREF_MORTAL(h, obj) ==
    IF h.rc[obj] - 1 = 0
    THEN [rc |-> [h.rc EXCEPT ![obj] = 0], dl |-> [h.dl EXCEPT ![obj] = @ + 1]]
    ELSE [h EXCEPT !.rc[obj] = @ - 1]
Py_DECREF(h, obj) == IF _Py_IsImmortal(obj) THEN h ELSE Py_DECREF_MORTAL(h, obj)

\* What a read of the count through a null pointer can give (with the GIL,
\* PyStackRef_AsPyObjectSteal of PyStackRef_NULL): a crash, or whatever word
\* is there, positive or not.
NullReads == {"crash", "positive", "not positive"}

\* PyStackRef_AsPyObjectSteal that never takes a count.
Steal_NoNewRef(b, h, ref, nullread) ==
    [h |-> h, ret |-> Untagged(ref), nread |-> 0, ok |-> "none"]

\* PyStackRef_AsPyObjectSteal.  nread counts the reads of a reference count
\* made before the function returned or stopped; nullread is what reading
\* the count of a null pointer gives.
PyStackRef_AsPyObjectSteal(b, h, ref, nullread) ==
    IF b = "nogil"
    THEN IF PyStackRef_IsNull(b, ref)
         THEN [h |-> h, ret |-> NULL, nread |-> 0, ok |-> "!PyStackRef_IsNull"]
         ELSE IF PyStackRef_IsDeferred(ref)
         THEN [h |-> Py_INCREF(h, PyStackRef_AsPyObjectBorrow(ref)),
               ret |-> PyStackRef_AsPyObjectBorrow(ref), nread |-> 0, ok |-> "none"]
         ELSE [h |-> h, ret |-> PyStackRef_AsPyObjectBorrow(ref), nread |-> 0,
               ok |-> "none"]
    ELSE IF PyStackRef_HasCount(ref)
         THEN LET obj == BITS_TO_PTR_MASKED(ref) IN
              IF obj = NULL
              THEN [h |-> h, ret |-> NULL, nread |-> 1,
                    ok |-> IF nullread = "crash" THEN "invalid read"
                           ELSE IF nullread = "positive" THEN "none"
                           ELSE "Py_REFCNT(obj) > 0"]
              ELSE IF h.rc[obj] > 0
              THEN [h |-> Py_INCREF(h, obj), ret |-> obj, nread |-> 1, ok |-> "none"]
              ELSE [h |-> h, ret |-> NULL, nread |-> 1, ok |-> "Py_REFCNT(obj) > 0"]
         ELSE [h |-> h, ret |-> BITS_TO_PTR(ref), nread |-> 0, ok |-> "none"]

\* PyStackRef_FromPyObjectSteal that tags nothing.
FromSteal_NeverTags(b, h, obj) == [h |-> h, ret |-> obj, ok |-> "none"]

\* PyStackRef_FromPyObjectSteal that takes a count of its own.
FromSteal_Incref(b, h, obj) ==
    [h |-> Py_INCREF(h, obj),
     ret |-> WithTag(obj, IF _Py_IsImmortal(obj) THEN 1 ELSE 0),
     ok |-> "none"]

\* PyStackRef_FromPyObjectSteal: the caller's reference moves into the slot.
PyStackRef_FromPyObjectSteal(b, h, obj) ==
    IF b = "nogil"
    THEN [h |-> h,
          ret |-> WithTag(obj, IF _Py_IsImmortal(obj) THEN Py_TAG_DEFERRED ELSE Py_TAG_PTR),
          ok |-> IF obj = NULL THEN "obj != NULL"
                 ELSE IF TagOf(obj) # 0 THEN "already tagged" ELSE "none"]
    ELSE [h |-> h,
          ret |-> WithTag(obj, IF _Py_IsImmortal(obj) THEN Py_TAG_REFCNT ELSE 0),
          ok |-> IF obj = NULL THEN "obj != NULL" ELSE "none"]

\* PyStackRef_FromPyObjectNew that takes no count for the caller's object.
FromNew_NoIncref(b, h, obj) ==
    [h |-> h,
     ret |-> IF _Py_IsImmortal(obj) \/ (b = "nogil" /\ _PyObject_HasDeferredRefcount(obj))
             THEN WithTag(obj, 1) ELSE obj,
     ok |-> "none"]

\* PyStackRef_FromPyObjectNew that counts every target.
FromNew_CountsAll(b, h, obj) ==
    [h |-> Py_INCREF_MORTAL(h, obj), ret |-> obj, ok |-> "none"]

\* PyStackRef_FromPyObjectNew: a new reference; the caller keeps its own.
PyStackRef_FromPyObjectNew(b, h, obj) ==
    IF b = "nogil"
    THEN IF _Py_IsImmortal(obj) \/ _PyObject_HasDeferredRefcount(obj)
         THEN [h |-> h, ret |-> WithTag(obj, Py_TAG_DEFERRED),
               ok |-> IF TagOf(obj) # 0 THEN "already tagged"
                      ELSE IF obj = NULL THEN "obj != NULL" ELSE "none"]
         ELSE [h |-> Py_INCREF(h, obj), ret |-> WithTag(obj, Py_TAG_PTR),
               ok |-> IF TagOf(obj) # 0 THEN "already tagged"
                      ELSE IF obj = NULL THEN "obj != NULL" ELSE "none"]
    ELSE IF _Py_IsImmortal(obj)
         THEN [h |-> h, ret |-> WithTag(obj, Py_TAG_REFCNT), ok |-> "none"]
         ELSE [h |-> Py_INCREF(h, obj), ret |-> obj,
               ok |-> IF h.rc[obj] > 0 THEN "none" ELSE "Py_REFCNT(obj) > 0"]

\* _PyStackRef_FromPyObjectWithCount (with GIL only): the pointer with the tag
\* set; no count is taken.
PyStackRef_FromPyObjectWithCount(h, obj) ==
    [h |-> h, ret |-> WithTag(obj, Py_TAG_REFCNT),
     ok |-> IF h.rc[obj] > 0 THEN "none" ELSE "Py_REFCNT(obj) > 0"]

\* The constructors, and what a read through a pointer with the tag bit set
\* (one byte into the object) can give: a fault, or words that look immortal
\* or not, positive or not.
Constructors == {"FromSteal", "FromNew", "FromImmortal"}
TaggedReads == [fault : BOOLEAN, immortal : BOOLEAN, positive : BOOLEAN]
\* Constructor c called on ptr, a pointer with Py_TAG_BITS already set.  Without
\* the GIL the constructors assert that the bit is clear.  With the GIL none
\* does: the object is read through ptr as it is, and ptr | tag is returned;
\* _PyStackRef_FromPyObjectNew may go on to Py_INCREF through ptr.
FromTaggedPointer(b, c, h, ptr, rd) ==
    IF b = "nogil"
    THEN [h |-> h, ret |-> ptr, ok |-> "already tagged"]
    ELSE IF rd.fault
    THEN [h |-> h, ret |-> ptr, ok |-> "invalid read"]
    ELSE IF c = "FromSteal"
    THEN [h |-> h, ret |-> ptr, ok |-> "none"]
    ELSE IF c = "FromNew"
    THEN IF rd.immortal
         THEN [h |-> h, ret |-> ptr, ok |-> "none"]
         ELSE IF rd.positive
         THEN [h |-> h, ret |-> ptr, ok |-> "write through tagged pointer"]
         ELSE [h |-> h, ret |-> ptr, ok |-> "Py_REFCNT(obj) > 0"]
    ELSE IF rd.positive
    THEN [h |-> h, ret |-> ptr, ok |-> "none"]
    ELSE [h |-> h, ret |-> ptr, ok |-> "Py_REFCNT(obj) > 0"]

\* PyStackRef_DUP that hands out the copy without counting it.
DUP_NoIncref(b, h, ref) == [h |-> h, ret |-> ref, ok |-> "none"]

\* PyStackRef_DUP
PyStackRef_DUP(b, h, ref) ==
    IF b = "nogil"
    THEN IF PyStackRef_IsDeferred(ref)
         THEN [h |-> h, ret |-> ref,
               ok |-> IF PyStackRef_IsNull(b, ref) THEN "!PyStackRef_IsNull"
                      ELSE IF \/ _Py_IsImmortal(PyStackRef_AsPyObjectBorrow(ref))
                              \/ _PyObject_HasDeferredRefcount(PyStackRef_AsPyObjectBorrow(ref))
                           THEN "none" ELSE "immortal or deferred"]
         ELSE [h |-> Py_INCREF(h, PyStackRef_AsPyObjectBorrow(ref)), ret |-> ref,
               ok |-> "none"]
    ELSE IF ~PyStackRef_HasCount(ref)
         THEN [h |-> Py_INCREF_MORTAL(h, BITS_TO_PTR(ref)), ret |-> ref,
               ok |-> IF h.rc[BITS_TO_PTR(ref)] > 0 THEN "none"
                      ELSE "Py_REFCNT(obj) > 0"]
         ELSE [h |-> h, ret |-> ref,
               ok |-> IF PyStackRef_IsNull(b, ref) THEN "!PyStackRef_IsNull"
                      ELSE "none"]

\* PyStackRef_IsHeapSafe: 1 without the GIL; with it, a reference that is
\* null, untagged, or to an immortal object.
PyStackRef_IsHeapSafe(b, ref) ==
    IF b = "nogil" THEN TRUE
    ELSE \/ PyStackRef_IsNull(b, ref)
         \/ ~PyStackRef_HasCount(ref)
         \/ _Py_IsImmortal(PyStackRef_AsPyObjectBorrow(ref))

\* PyStackRef_HeapSafe that returns every reference as it is.
HeapSafe_Identity(b, h, ref) == [h |-> h, ret |-> ref, ok |-> "none"]

\* PyStackRef_HeapSafe: the identity without the GIL; with it, a tagged
\* reference to a mortal object becomes an untagged one with a count of its own.
PyStackRef_HeapSafe(b, h, ref) ==
    IF b = "nogil" THEN [h |-> h, ret |-> ref, ok |-> "none"]
    ELSE IF PyStackRef_HasCount(ref)
    THEN LET obj == BITS_TO_PTR_MASKED(ref) IN
         IF obj # NULL /\ ~_Py_IsImmortal(obj)
         THEN IF h.rc[obj] > 0
              THEN [h |-> Py_INCREF_MORTAL(h, obj), ret |-> obj, ok |-> "none"]
              ELSE [h |-> h, ret |-> ref, ok |-> "Py_REFCNT(obj) > 0"]
         ELSE [h |-> h, ret |-> ref, ok |-> "none"]
    ELSE [h |-> h, ret |-> ref, ok |-> "none"]

\* PyStackRef_CLOSE that gives up a count for the references with the tag set.
CLOSE_OnTagged(b, h, ref) ==
    IF TagOf(ref) = 1 /\ ~PyStackRef_IsNull(b, ref)
    THEN [h |-> Py_DECREF(h, Untagged(ref)), ok |-> "none"]
    ELSE [h |-> h, ok |-> "none"]

\* PyStackRef_CLOSE
PyStackRef_CLOSE(b, h, ref) ==
    IF b = "nogil"
    THEN IF ~PyStackRef_IsDeferred(ref)
         THEN [h |-> Py_DECREF(h, PyStackRef_AsPyObjectBorrow(ref)), ok |-> "none"]
         ELSE [h |-> h,
               ok |-> IF PyStackRef_IsNull(b, ref) THEN "!PyStackRef_IsNull"
                      ELSE "none"]
    ELSE IF ~PyStackRef_HasCount(ref)
         THEN [h |-> Py_DECREF_MORTAL(h, BITS_TO_PTR(ref)), ok |-> "none"]
         ELSE [h |-> h,
               ok |-> IF PyStackRef_IsNull(b, ref) THEN "!PyStackRef_IsNull"
                      ELSE "none"]

\* PyStackRef_XCLOSE that calls PyStackRef_CLOSE without looking for null.
XCLOSE_NoNullCheck(b, h, ref) == PyStackRef_CLOSE(b, h, ref)

\* PyStackRef_XCLOSE
PyStackRef_XCLOSE(b, h, ref) ==
    IF b = "nogil"
    THEN IF ~PyStackRef_IsNull(b, ref)
         THEN PyStackRef_CLOSE(b, h, ref)
         ELSE [h |-> h, ok |-> "none"]
    ELSE IF ref = 0
         THEN [h |-> h, ok |-> "ref.bits != 0"]
         ELSE IF ~PyStackRef_HasCount(ref)
              THEN [h |-> Py_DECREF_MORTAL(h, BITS_TO_PTR(ref)), ok |-> "none"]
              ELSE [h |-> h, ok |-> "none"]

\* What the destructor of obj finds in slot i of st when the step from heap h
\* to heap h2 ran it; NoDestructor when it did not.
NoDestructor == 0 - 1
Seen(h, h2, obj, st, i) ==
    IF obj \in DOMAIN h.dl /\ h2.dl[obj] > h.dl[obj] THEN st[i] ELSE NoDestructor

\* PyStackRef_CLEAR that stores null and forgets to close the old value.
CLEAR_NoClose(b, h, st, i) ==
    [h |-> h, ok |-> "none", seen |-> NoDestructor,
     st |-> [st EXCEPT ![i] = PyStackRef_NULL(b)]]

\* PyStackRef_CLEAR that closes the old value first and stores null last.
CLEAR_CloseFirst(b, h, st, i) ==
    LET old == st[i]
        obj == PyStackRef_AsPyObjectBorrow(old)
        c == PyStackRef_XCLOSE(b, h, old)
    IN  [h |-> c.h, ok |-> c.ok, seen |-> Seen(h, c.h, obj, st, i),
         st |-> [st EXCEPT ![i] = PyStackRef_NULL(b)]]

\* PyStackRef_CLEAR(st[i]): the old value is read, null is stored, then the
\* old value is closed; a destructor runs inside that close.
PyStackRef_CLEAR(b, h, st, i) ==
    LET old == st[i]
        obj == PyStackRef_AsPyObjectBorrow(old)
        st1 == [st EXCEPT ![i] = PyStackRef_NULL(b)]
    IN  IF b = "nogil"
        THEN IF ~PyStackRef_IsNull(b, old)
             THEN LET c == PyStackRef_CLOSE(b, h, old) IN
                  [h |-> c.h, ok |-> c.ok, seen |-> Seen(h, c.h, obj, st1, i),
                   st |-> st1]
             ELSE [h |-> h, ok |-> "none", seen |-> NoDestructor, st |-> st]
        ELSE LET c == PyStackRef_XCLOSE(b, h, old) IN
             [h |-> c.h, ok |-> c.ok, seen |-> Seen(h, c.h, obj, st1, i),
              st |-> st1]

\* ------------------------------------------- objects, callers and stack slots

Heap == [rc |-> ob_refcnt, dl |-> dealloc]

\* The calls of the owned-reference life the trail follows.
Lifecycle == <<"Create", "FromSteal", "DUP", "CLOSE", "CLOSE">>
NoTrail == [obj |-> NULL, rc |-> <<>>, dl |-> <<>>, refs |-> {}]
\* The trail after the call `name` on object o, reading the reference in slot
\* src and writing slot dst (0 for none), left o with count rc and dl
\* destructions: a Create starts it, the next call of Lifecycle on the
\* reference made in this life or a copy of it (refs: the slots they are in)
\* extends it, any other call on its object ends it.
Track(o, name, rc, dl, src, dst) ==
    IF name = "Create"
    THEN [obj |-> o, rc |-> <<rc>>, dl |-> <<dl>>, refs |-> {}]
    ELSE IF trail.obj # o THEN trail
    ELSE IF /\ Len(trail.rc) < Len(Lifecycle)
            /\ Lifecycle[Len(trail.rc) + 1] = name
            /\ src \in trail.refs \cup {0}
    THEN [trail EXCEPT !.rc = Append(@, rc), !.dl = Append(@, dl),
                       !.refs = ((@ \cup {dst})
                                  \ (IF name = "CLOSE" THEN {src} ELSE {})) \ {0}]
    ELSE NoTrail
Alive(obj) == ob_refcnt[obj] > 0
\* A C caller may pass obj on: it holds a strong reference, or obj is immortal.
CanUse(obj) == Alive(obj) /\ (_Py_IsImmortal(obj) \/ owned[obj] > 0)

RefInit ==
    /\ PerfIdle
    /\ build \in Builds
    /\ ob_refcnt = [o \in Objects |->
                      IF _Py_IsImmortal(o) THEN _Py_IMMORTAL_INITIAL_REFCNT ELSE 0]
    /\ dealloc = [o \in Objects |-> 0]
    /\ owned = [o \in Objects |-> 0]
    /\ stack = [i \in Slots |-> PyStackRef_NULL(build)]
    /\ trail = NoTrail
    /\ assertion = "none"
    /\ last = [op |-> "Start"]
    /\ memword = <<>>
    /\ memtype = <<>>
    /\ FLIdle
    /\ AllocIdle
    /\ TstateIdle

\* A new object: the creating C code holds its one reference.
RefCreate ==
    /\ assertion = "none"
    /\ \E o \in Objects :
         /\ ~Alive(o)
         /\ dealloc[o] < MaxLives
         /\ ob_refcnt' = [ob_refcnt EXCEPT ![o] =
                IF build = "nogil" /\ _PyObject_HasDeferredRefcount(o)
                THEN 1 + _Py_REF_DEFERRED ELSE 1]
         /\ owned' = [owned EXCEPT ![o] = 1]
         /\ trail' = Track(o, "Create", ob_refcnt'[o], dealloc[o], 0, 0)
         /\ last' = [op |-> "Create", obj |-> o]
    /\ UNCHANGED <<perfVars, build, dealloc, stack, assertion, memVars, flVars, allocVars,
                   tstateVars>>

\* Py_NewRef(obj) by a C caller that already holds a reference.
RefCallerIncref ==
    /\ assertion = "none"
    /\ \E o \in Objects :
         /\ ~_Py_IsImmortal(o)
         /\ owned[o] > 0
         /\ owned[o] < MaxOwned
         /\ ob_refcnt' = Py_INCREF(Heap, o).rc
         /\ owned' = [owned EXCEPT ![o] = @ + 1]
         /\ trail' = Track(o, "Py_NewRef", ob_refcnt'[o], dealloc[o], 0, 0)
         /\ last' = [op |-> "Py_NewRef", obj |-> o]
    /\ UNCHANGED <<perfVars, build, dealloc, stack, assertion, memVars, flVars, allocVars,
                   tstateVars>>

\* Py_DECREF(obj) by a C caller giving up a reference it holds.
RefCallerDecref ==
    /\ assertion = "none"
    /\ \E o \in Objects :
         /\ owned[o] > 0
         /\ LET h == Py_DECREF(Heap, o) IN
              /\ ob_refcnt' = h.rc
              /\ dealloc' = h.dl
         /\ owned' = [owned EXCEPT ![o] = @ - 1]
         /\ trail' = Track(o, "Py_DECREF", ob_refcnt'[o], dealloc'[o], 0, 0)
         /\ last' = [op |-> "Py_DECREF", obj |-> o]
    /\ UNCHANGED <<perfVars, build, stack, assertion, memVars, flVars, allocVars,
                   tstateVars>>

\* stack[i] = PyStackRef_True
RefConst ==
    /\ assertion = "none"
    /\ \E i \in Slots :
         /\ PyStackRef_IsNull(build, stack[i])
         /\ stack' = [stack EXCEPT ![i] = PyStackRef_True(build)]
         /\ last' = [op |-> "Const", obj |-> ImmortalObj, slot |-> i,
                     ret |-> PyStackRef_True(build)]
    /\ UNCHANGED <<perfVars, build, ob_refcnt, dealloc, owned, trail, assertion,
                   memVars, flVars, allocVars,
                   tstateVars>>

\* stack[i] = PyStackRef_FromPyObjectSteal(obj)
RefFromSteal ==
    /\ assertion = "none"
    /\ \E o \in Objects, i \in Slots :
         /\ CanUse(o)
         /\ PyStackRef_IsNull(build, stack[i])
         /\ LET r == PyStackRef_FromPyObjectSteal(build, Heap, o) IN
              /\ ob_refcnt' = r.h.rc
              /\ dealloc' = r.h.dl
              /\ assertion' = r.ok
              /\ stack' = [stack EXCEPT ![i] = r.ret]
              /\ trail' = Track(o, "FromSteal", r.h.rc[o], r.h.dl[o], 0, i)
              /\ last' = [op |-> "FromSteal", obj |-> o, slot |-> i, ret |-> r.ret,
                          rc |-> ob_refcnt[o], dl |-> dealloc[o]]
         /\ owned' = [owned EXCEPT ![o] = IF _Py_IsImmortal(o) THEN @ ELSE @ - 1]
    /\ UNCHANGED <<perfVars, build, memVars, flVars, allocVars,
                   tstateVars>>

\* stack[i] = PyStackRef_FromPyObjectNew(obj)
RefFromNew ==
    /\ assertion = "none"
    /\ \E o \in Objects, i \in Slots :
         /\ CanUse(o)
         /\ PyStackRef_IsNull(build, stack[i])
         /\ LET r == PyStackRef_FromPyObjectNew(build, Heap, o) IN
              /\ ob_refcnt' = r.h.rc
              /\ dealloc' = r.h.dl
              /\ assertion' = r.ok
              /\ stack' = [stack EXCEPT ![i] = r.ret]
              /\ trail' = Track(o, "FromNew", r.h.rc[o], r.h.dl[o], 0, i)
              /\ last' = [op |-> "FromNew", obj |-> o, slot |-> i, ret |-> r.ret,
                          rc |-> ob_refcnt[o], dl |-> dealloc[o]]
    /\ UNCHANGED <<perfVars, build, owned, memVars, flVars, allocVars,
                   tstateVars>>

\* stack[i] = PyStackRef_FromPyObjectWithCount(obj), with the GIL: the caller
\* keeps its reference.
RefFromWithCount ==
    /\ assertion = "none"
    /\ build = "gil"
    /\ \E o \in Objects, i \in Slots :
         /\ CanUse(o)
         /\ PyStackRef_IsNull(build, stack[i])
         /\ LET r == PyStackRef_FromPyObjectWithCount(Heap, o) IN
              /\ ob_refcnt' = r.h.rc
              /\ dealloc' = r.h.dl
              /\ assertion' = r.ok
              /\ stack' = [stack EXCEPT ![i] = r.ret]
              /\ trail' = Track(o, "FromWithCount", r.h.rc[o], r.h.dl[o], 0, i)
              /\ last' = [op |-> "FromWithCount", obj |-> o, slot |-> i,
                          ret |-> r.ret, rc |-> ob_refcnt[o], dl |-> dealloc[o]]
    /\ UNCHANGED <<perfVars, build, owned, memVars, flVars, allocVars,
                   tstateVars>>

\* obj = PyStackRef_AsPyObjectSteal(stack[i]), on any slot, the empty ones
\* included; the reference is consumed and the caller owns the pointer.
RefSteal ==
    /\ assertion = "none"
    /\ \E i \in Slots, nullread \in NullReads :
         LET r == PyStackRef_AsPyObjectSteal(build, Heap, stack[i], nullread)
             o == PyStackRef_AsPyObjectBorrow(stack[i])
         IN
         /\ o \in Objects => owned[o] < MaxOwned
         /\ ob_refcnt' = r.h.rc
         /\ dealloc' = r.h.dl
         /\ assertion' = r.ok
         /\ stack' = [stack EXCEPT ![i] = PyStackRef_NULL(build)]
         /\ owned' = IF r.ok = "none" /\ o \in Objects /\ ~_Py_IsImmortal(o)
                     THEN [owned EXCEPT ![o] = @ + 1] ELSE owned
         /\ trail' = IF o \in Objects
                     THEN Track(o, "Steal", r.h.rc[o], r.h.dl[o], i, 0) ELSE trail
         /\ last' = [op |-> "Steal", obj |-> o, slot |-> i, ref |-> stack[i],
                     ret |-> r.ret, nread |-> r.nread]
    /\ UNCHANGED <<perfVars, build, memVars, flVars, allocVars,
                   tstateVars>>

\* p = PyStackRef_AsPyObjectBorrow(stack[i]), on any slot.
RefBorrow ==
    /\ assertion = "none"
    /\ \E i \in Slots :
         last' = [op |-> "Borrow", slot |-> i, ref |-> stack[i],
                  ret |-> PyStackRef_AsPyObjectBorrow(stack[i])]
    /\ UNCHANGED <<perfVars, refVars, assertion, memVars, flVars, allocVars,
                   tstateVars>>

\* PyStackRef_Is(stack[i], stack[j]), on any two slots.
RefIs ==
    /\ assertion = "none"
    /\ \E i \in Slots, j \in Slots :
         last' = [op |-> "Is", a |-> stack[i], b |-> stack[j],
                  ret |-> PyStackRef_Is(stack[i], stack[j])]
    /\ UNCHANGED <<perfVars, refVars, assertion, memVars, flVars, allocVars,
                   tstateVars>>

\* stack[i] = PyStackRef_HeapSafe(stack[i]), on any slot.
RefHeapSafe ==
    /\ assertion = "none"
    /\ \E i \in Slots :
         LET r == PyStackRef_HeapSafe(build, Heap, stack[i])
             o == PyStackRef_AsPyObjectBorrow(stack[i])
         IN
         /\ ob_refcnt' = r.h.rc
         /\ dealloc' = r.h.dl
         /\ assertion' = r.ok
         /\ stack' = [stack EXCEPT ![i] = r.ret]
         /\ trail' = IF o \in Objects
                     THEN Track(o, "HeapSafe", r.h.rc[o], r.h.dl[o], i, i) ELSE trail
         /\ last' = [op |-> "HeapSafe", obj |-> o, slot |-> i, ref |-> stack[i],
                     ret |-> r.ret]
    /\ UNCHANGED <<perfVars, build, owned, memVars, flVars, allocVars,
                   tstateVars>>

\* stack[j] = PyStackRef_DUP(stack[i])
RefDup ==
    /\ assertion = "none"
    /\ \E i \in Slots, j \in Slots :
         /\ ~PyStackRef_IsNull(build, stack[i])
         /\ PyStackRef_IsNull(build, stack[j])
         /\ LET r == PyStackRef_DUP(build, Heap, stack[i])
                o == PyStackRef_AsPyObjectBorrow(stack[i]) IN
              /\ ob_refcnt' = r.h.rc
              /\ dealloc' = r.h.dl
              /\ assertion' = r.ok
              /\ stack' = [stack EXCEPT ![j] = r.ret]
              /\ trail' = Track(o, "DUP", r.h.rc[o], r.h.dl[o], i, j)
              /\ last' = [op |-> "DUP", obj |-> o, src |-> i, dst |-> j,
                          ref |-> stack[i], ret |-> r.ret,
                          rc |-> ob_refcnt[o], dl |-> dealloc[o]]
    /\ UNCHANGED <<perfVars, build, owned, memVars, flVars, allocVars,
                   tstateVars>>

\* PyStackRef_CLOSE(stack[i]); the slot is dead afterwards.
RefClose ==
    /\ assertion = "none"
    /\ \E i \in Slots :
         /\ ~PyStackRef_IsNull(build, stack[i])
         /\ LET r == PyStackRef_CLOSE(build, Heap, stack[i])
                o == PyStackRef_AsPyObjectBorrow(stack[i]) IN
              /\ ob_refcnt' = r.h.rc
              /\ dealloc' = r.h.dl
              /\ assertion' = r.ok
              /\ stack' = [stack EXCEPT ![i] = PyStackRef_NULL(build)]
              /\ trail' = Track(o, "CLOSE", r.h.rc[o], r.h.dl[o], i, 0)
              /\ last' = [op |-> "CLOSE", obj |-> o, slot |-> i, ref |-> stack[i],
                          rc |-> ob_refcnt[o], dl |-> dealloc[o],
                          prev |-> IF last.op \in {"DUP", "FromNew"} THEN last
                                   ELSE [op |-> last.op]]
    /\ UNCHANGED <<perfVars, build, owned, memVars, flVars, allocVars,
                   tstateVars>>

\* stack[i] = constructor c called on the address of an object with the tag
\* bit set already.
RefFromTagged ==
    /\ assertion = "none"
    /\ \E o \in Objects, i \in Slots, c \in Constructors, rd \in TaggedReads :
         /\ CanUse(o)
         /\ PyStackRef_IsNull(build, stack[i])
         /\ LET r == FromTaggedPointer(build, c, Heap, o + Py_TAG_BITS, rd) IN
              /\ assertion' = r.ok
              /\ stack' = IF r.ok = "none" THEN [stack EXCEPT ![i] = r.ret]
                          ELSE stack
              /\ trail' = Track(o, "FromTagged", r.h.rc[o], r.h.dl[o], 0, i)
              /\ last' = [op |-> "FromTagged", obj |-> o, slot |-> i,
                          ptr |-> o + Py_TAG_BITS, ctor |-> c, ret |-> r.ret]
    /\ UNCHANGED <<perfVars, build, ob_refcnt, dealloc, owned, memVars, flVars, allocVars,
                   tstateVars>>

\* PyStackRef_XCLOSE(stack[i]); the slot is dead afterwards.
RefXClose ==
    /\ assertion = "none"
    /\ \E i \in Slots :
         LET r == PyStackRef_XCLOSE(build, Heap, stack[i])
             o == PyStackRef_AsPyObjectBorrow(stack[i]) IN
           /\ ob_refcnt' = r.h.rc
           /\ dealloc' = r.h.dl
           /\ assertion' = r.ok
           /\ stack' = [stack EXCEPT ![i] = PyStackRef_NULL(build)]
           /\ trail' = IF o \in Objects
                       THEN Track(o, "XCLOSE", r.h.rc[o], r.h.dl[o], i, 0)
                       ELSE trail
           /\ last' = [op |-> "XCLOSE", obj |-> o, slot |-> i, ref |-> stack[i]]
    /\ UNCHANGED <<perfVars, build, owned, memVars, flVars, allocVars,
                   tstateVars>>

\* PyStackRef_CLEAR(stack[i])
RefClear ==
    /\ assertion = "none"
    /\ \E i \in Slots :
         LET r == PyStackRef_CLEAR(build, Heap, stack, i)
             o == PyStackRef_AsPyObjectBorrow(stack[i]) IN
           /\ ob_refcnt' = r.h.rc
           /\ dealloc' = r.h.dl
           /\ assertion' = r.ok
           /\ stack' = r.st
           /\ trail' = IF o \in Objects
                       THEN Track(o, "CLEAR", r.h.rc[o], r.h.dl[o], i, 0)
                       ELSE trail
           /\ last' = [op |-> "CLEAR", obj |-> o, slot |-> i, ref |-> stack[i],
                       seen |-> r.seen]
    /\ UNCHANGED <<perfVars, build, owned, memVars, flVars, allocVars,
                   tstateVars>>

RefNext ==
    \/ RefCreate
    \/ RefCallerIncref
    \/ RefCallerDecref
    \/ RefConst
    \/ RefFromSteal
    \/ RefFromNew
    \/ RefFromWithCount
    \/ RefSteal
    \/ RefBorrow
    \/ RefIs
    \/ RefHeapSafe
    \/ RefDup
    \/ RefClose
    \/ RefXClose
    \/ RefClear
    \/ RefFromTagged

SpecRef == RefInit /\ [][RefNext]_vars

\* ------------------------------------ typed allocation (pycore_object_alloc.h)

\* Threads of the program, and typed allocation calls in progress at once
\* (over all threads; a call made inside the backing allocator of another
\* call of its thread is nested in it).
NThreads == 2
MaxCalls == 2
Threads == 1..NThreads
\* A type, as far as allocation looks at it: Py_TPFLAGS_PREHEADER and
\* _PyType_IS_GC.
TypeFlags == [preheader : BOOLEAN, gc : BOOLEAN]
HeapTags == {"_Py_MIMALLOC_HEAP_OBJECT", "_Py_MIMALLOC_HEAP_GC",
             "_Py_MIMALLOC_HEAP_GC_PRE"}
\* &tstate->mimalloc.heaps[tag]
HeapOf(tstate, tag) == [tstate |-> tstate, tag |-> tag]
\* The heaps of a build that has no mimalloc thread state.
NoHeap == [tstate |-> 0, tag |-> "none"]

\* _PyObject_GetAllocationHeap that tests _PyType_IS_GC first.
GetAllocationHeap_GCFirst(tstate, tp) ==
    IF tp.gc THEN HeapOf(tstate, "_Py_MIMALLOC_HEAP_GC")
    ELSE IF tp.preheader THEN HeapOf(tstate, "_Py_MIMALLOC_HEAP_GC_PRE")
    ELSE HeapOf(tstate, "_Py_MIMALLOC_HEAP_OBJECT")

\* _PyObject_GetAllocationHeap(tstate, tp)
_PyObject_GetAllocationHeap(tstate, tp) ==
    IF tp.preheader THEN HeapOf(tstate, "_Py_MIMALLOC_HEAP_GC_PRE")
    ELSE IF tp.gc THEN HeapOf(tstate, "_Py_MIMALLOC_HEAP_GC")
    ELSE HeapOf(tstate, "_Py_MIMALLOC_HEAP_OBJECT")

\* _PyObject_MallocWithType / _PyObject_ReallocWithType up to the call of
\* the backing allocator: m->current_object_heap afterwards.
WithType_Before(b, cur, tstate, tp) ==
    IF b = "nogil" THEN _PyObject_GetAllocationHeap(tstate, tp) ELSE cur

\* The end of the two functions leaving the heap as the call chose it.
WithType_KeepsHeap(b, cur, tstate) == cur

\* _PyObject_MallocWithType / _PyObject_ReallocWithType after the backing
\* allocator returned: m->current_object_heap afterwards.
WithType_After(b, cur, tstate) ==
    IF b = "nogil" THEN HeapOf(tstate, "_Py_MIMALLOC_HEAP_OBJECT") ELSE cur

Depth == LET Sum[t \in 0..NThreads] ==
                 IF t = 0 THEN 0 ELSE Len(calls[t]) + Sum[t - 1]
         IN  Sum[NThreads]

HeapInit ==
    /\ PerfIdle
    /\ build \in Builds
    /\ current_object_heap =
          [t \in Threads |-> IF build = "nogil"
                             THEN HeapOf(t, "_Py_MIMALLOC_HEAP_OBJECT")
                             ELSE NoHeap]
    /\ calls = [t \in Threads |-> <<>>]
    /\ assertion = "none"
    /\ last = [op |-> "Start"]
    /\ ob_refcnt = <<>>
    /\ dealloc = <<>>
    /\ owned = <<>>
    /\ stack = <<>>
    /\ trail = <<>>
    /\ memword = <<>>
    /\ memtype = <<>>
    /\ freelists = <<>>
    /\ pushedby = <<>>
    /\ FLIdle
    /\ AllocIdle

\* Thread t enters _PyObject_MallocWithType(tp, size) or
\* _PyObject_ReallocWithType(tp, ptr, size) and reaches the call of
\* PyObject_Malloc / PyObject_Realloc; `heap` is m->current_object_heap at
\* that call.  The thread is idle or inside the backing allocator of its
\* innermost call.
HeapEnter ==
    \E t \in Threads, fn \in {"Malloc", "Realloc"}, tp \in TypeFlags :
        /\ Depth < MaxCalls
        /\ LET cur == WithType_Before(build, current_object_heap[t], t, tp) IN
             /\ current_object_heap' = [current_object_heap EXCEPT ![t] = cur]
             /\ calls' = [calls EXCEPT ![t] =
                            Append(@, [fn |-> fn, tp |-> tp, heap |-> cur])]
        /\ last' = [op |-> "Enter", tstate |-> t]
        /\ UNCHANGED <<perfVars, build, ob_refcnt, dealloc, owned, stack, trail,
                       assertion, memVars, flVars, allocVars, thrVars>>

\* The backing allocator of the innermost call of thread t returns, with
\* memory or with NULL, and the function returns it.
HeapReturn ==
    \E t \in Threads, ok \in BOOLEAN :
        /\ calls[t] # <<>>
        /\ current_object_heap' =
              [current_object_heap EXCEPT
                 ![t] = WithType_After(build, current_object_heap[t], t)]
        /\ calls' = [calls EXCEPT ![t] = SubSeq(@, 1, Len(@) - 1)]
        /\ last' = [op |-> "Return", tstate |-> t, ok |-> ok]
        /\ UNCHANGED <<perfVars, build, ob_refcnt, dealloc, owned, stack, trail,
                       assertion, memVars, flVars, allocVars, thrVars>>

HeapNext ==
    \/ HeapEnter
    \/ HeapReturn

SpecHeap == HeapInit /\ [][HeapNext]_vars

\* ------------------------------------------- threads and free-list containers

\* The capacity of every free list of this program, and its blocks: one more
\* than a list holds.
ThrCapacity == 1
ThrBlockAddrs == {Base(b) : b \in 1..(ThrCapacity + 1)}
\* The container of the interpreter: interp->object_state.freelists.
InterpContainer == 0
ContainerIds == {InterpContainer} \cup Threads
\* The shape of the objects on the list `floats`.
FloatRequest == <<0, 32>>
\* The lists of by_size the requests of this program reach; the others stay
\* as they were initialised.
ThrClasses == {SizeClass(FloatRequest[1] + FloatRequest[2])}

\* _Py_freelists_GET() called on thread state tstate: the container of the
\* thread state without the GIL, of its interpreter with it.
_Py_freelists_GET(b, tstate) == IF b = "nogil" THEN tstate ELSE InterpContainer

\* The container _PyObject_NewTstate and _PyMem_FreeTstate take their list
\* from: ts->interp->object_state.freelists, whatever the build (a member
\* struct _py_object_state declares only with the GIL).
TstateContainer(b, ts) == InterpContainer

\* Drains the list f: pops block after block and hands each to the backing
\* allocator's release; rel lists them in that order.
RECURSIVE clear_freelist(_, _, _, _)
clear_freelist(f, mw, pl, rel) ==
    LET r == _PyFreeList_PopNoStats(f, mw) IN
    IF r.ret = NULL \/ r.ok # "none" \/ Len(rel) > NBlocks
    THEN [fl |-> r.fl, pool |-> pl, released |-> rel, ok |-> r.ok]
    ELSE clear_freelist(r.fl, mw, RawFree(pl, BlockOf(r.ret), FALSE),
                        Append(rel, r.ret))

\* _PyObject_ClearFreeLists(freelists, is_finalization): every list of the
\* container c is drained, by_size first, in index order, then floats.
RECURSIVE ClearBySize(_, _, _, _, _)
ClearBySize(c, mw, pl, rel, k) ==
    IF k \notin SizeClasses
    THEN [c |-> c, pool |-> pl, released |-> rel, ok |-> "none"]
    ELSE IF k \notin DOMAIN c.by_size
    THEN ClearBySize(c, mw, pl, rel, k + 1)
    ELSE LET r == clear_freelist(c.by_size[k], mw, pl, rel) IN
         IF r.ok # "none"
         THEN [c |-> [c EXCEPT !.by_size[k] = r.fl], pool |-> r.pool,
               released |-> r.released, ok |-> r.ok]
         ELSE ClearBySize([c EXCEPT !.by_size[k] = r.fl], mw, r.pool,
                          r.released, k + 1)
_PyObject_ClearFreeLists(c, mw, pl) ==
    LET a == ClearBySize(c, mw, pl, <<>>, 0) IN
    IF a.ok # "none" THEN a
    ELSE LET r == clear_freelist(a.c.floats, mw, a.pool, a.released) IN
         [c |-> [a.c EXCEPT !.floats = r.fl], pool |-> r.pool,
          released |-> r.released, ok |-> r.ok]

ThrInit ==
    /\ PerfIdle
    /\ build \in Builds
    /\ freelists = [i \in ContainerIds |->
                      [by_size |-> [k \in ThrClasses |-> _PyFreeList_Init(ThrCapacity)],
                       floats |-> _PyFreeList_Init(ThrCapacity)]]
    /\ pushedby = [b \in BlockAddrs |-> 0]
    /\ pool = [b \in BlockAddrs |-> IF b \in ThrBlockAddrs THEN 1 ELSE 0]
    /\ live = EmptyBag
    /\ corrupt = 0
    /\ memword = [a \in Addrs |-> 0]
    /\ memtype = [a \in Addrs |-> "none"]
    /\ assertion = "none"
    /\ last = [op |-> "Start"]
    /\ recyc = <<>>
    /\ scen = <<>>
    /\ by_size = <<>>
    /\ current_object_heap = <<>>
    /\ calls = <<>>
    /\ ob_refcnt = <<>>
    /\ dealloc = <<>>
    /\ owned = <<>>
    /\ stack = <<>>
    /\ trail = <<>>
    /\ FLIdle

\* Thread t: op = _PyObject_NewTstate(ts, tp, presize, size) with its own
\* thread state.
ThrNew ==
    /\ assertion = "none"
    /\ BagCardinality(live) < MaxLive
    /\ \E t \in Threads, tp \in {"TypeA"}, rq \in {FloatRequest},
          mem \in RawAllocAnswers(pool) :
         LET id == TstateContainer(build, t)
             r == _PyObject_NewTstate(freelists[id].by_size, memword, memtype,
                                      pool, tp, rq[1], rq[2], mem)
             blk == r.ret - rq[1]
             hit == r.ret # NULL /\ r.nalloc = 0
         IN
         /\ freelists' = [freelists EXCEPT ![id].by_size = r.by_size]
         /\ memword' = r.mw
         /\ memtype' = r.mt
         /\ pool' = r.pool
         /\ assertion' = r.ok
         /\ live' = IF r.ret = NULL THEN live
                    ELSE live (+) SetToBag({[addr |-> r.ret, presize |-> rq[1],
                                             size |-> rq[2]]})
         /\ pushedby' = IF hit THEN [pushedby EXCEPT ![blk] = 0] ELSE pushedby
         /\ last' = [op |-> "New", tstate |-> t, ret |-> r.ret,
                     by |-> IF hit THEN pushedby[blk] ELSE t]
    /\ UNCHANGED <<perfVars, corrupt, by_size, recyc, scen, current_object_heap, calls,
                   flVars, refVars>>

\* Thread t: _PyMem_FreeTstate(ts, obj, presize, size) with its own thread
\* state, on an object the program holds.
ThrFree ==
    /\ assertion = "none"
    /\ \E t \in Threads, o \in BagToSet(live), again \in BOOLEAN :
         LET id == TstateContainer(build, t)
             blk == o.addr - o.presize
             r == _PyMem_FreeTstate(freelists[id].by_size, memword, pool,
                                    o.addr, o.presize, o.size, again)
         IN
         /\ again => corrupt < MaxCorrupt /\ r.pool[blk] > 1 /\ r.pool[blk] > pool[blk]
         /\ freelists' = [freelists EXCEPT ![id].by_size = r.by_size]
         /\ memword' = Forget(r.mw, blk, IF r.released = <<>> THEN blk ELSE NULL, 0)
         /\ memtype' = Forget(memtype, blk, NULL, "none")
         /\ pool' = r.pool
         /\ corrupt' = IF again THEN corrupt + 1 ELSE corrupt
         /\ live' = live (-) SetToBag({o})
         /\ pushedby' = IF r.released = <<>> THEN [pushedby EXCEPT ![blk] = t]
                        ELSE pushedby
         /\ last' = [op |-> "Free", tstate |-> t, ret |-> o.addr, by |-> t]
    /\ UNCHANGED <<perfVars, assertion, by_size, recyc, scen, current_object_heap, calls,
                   flVars, refVars>>

\* Thread t: _Py_FREELIST_PUSH(floats, op) on a float the program holds.
ThrPush ==
    /\ assertion = "none"
    /\ \E t \in Threads, o \in BagToSet(live) :
         LET id == _Py_freelists_GET(build, t)
             r == _PyFreeList_Push(freelists[id].floats, memword, o.addr)
         IN
         /\ <<o.presize, o.size>> = FloatRequest
         /\ freelists' = [freelists EXCEPT ![id].floats = r.fl]
         /\ memword' = r.mw
         /\ live' = IF r.ret = 1 THEN live (-) SetToBag({o}) ELSE live
         /\ pushedby' = IF r.ret = 1 THEN [pushedby EXCEPT ![o.addr] = t]
                        ELSE pushedby
         /\ last' = [op |-> "Push", tstate |-> t, ret |-> r.ret, by |-> t]
    /\ UNCHANGED <<perfVars, assertion, memtype, pool, corrupt, by_size, recyc, scen,
                   current_object_heap, calls, flVars, refVars>>

\* Thread t: op = _Py_FREELIST_POP(PyFloatObject, floats)
ThrPop ==
    /\ assertion = "none"
    /\ \E t \in Threads :
         LET id == _Py_freelists_GET(build, t)
             r == _PyFreeList_Pop(freelists[id].floats, memword)
         IN
         /\ r.ret # NULL => BagCardinality(live) < MaxLive
         /\ freelists' = [freelists EXCEPT ![id].floats = r.fl]
         /\ memword' = r.mw
         /\ assertion' = r.ok
         /\ live' = IF r.ret = NULL THEN live
                    ELSE live (+) SetToBag({[addr |-> r.ret,
                                             presize |-> FloatRequest[1],
                                             size |-> FloatRequest[2]]})
         /\ pushedby' = IF r.ret = NULL THEN pushedby
                        ELSE [pushedby EXCEPT ![r.ret] = 0]
         /\ last' = [op |-> "Pop", tstate |-> t, ret |-> r.ret,
                     by |-> IF r.ret = NULL THEN t ELSE pushedby[r.ret]]
    /\ UNCHANGED <<perfVars, memtype, pool, corrupt, by_size, recyc, scen,
                   current_object_heap, calls, flVars, refVars>>

\* Thread t: _PyObject_ClearFreeLists(_Py_freelists_GET(), is_finalization)
ThrClear ==
    /\ assertion = "none"
    /\ \E t \in Threads :
         LET id == _Py_freelists_GET(build, t)
             r == _PyObject_ClearFreeLists(freelists[id], memword, pool)
         IN
         /\ freelists' = [freelists EXCEPT ![id] = r.c]
         /\ pool' = r.pool
         /\ assertion' = r.ok
         /\ pushedby' = [b \in BlockAddrs |->
                           IF \E i \in DOMAIN r.released : BlockOf(r.released[i]) = b
                           THEN 0 ELSE pushedby[b]]
         /\ last' = [op |-> "Clear", tstate |-> t, ret |-> id,
                     by |-> t, released |-> r.released]
    /\ UNCHANGED <<perfVars, memVars, live, corrupt, by_size, recyc, scen,
                   current_object_heap, calls, flVars, refVars>>

\* Without the GIL, calls of _PyObject_NewTstate or _PyMem_FreeTstate on two
\* threads overlap in time on the list they share: a data race.  The model
\* does not follow the program further.
ThrRace ==
    /\ assertion = "none"
    /\ build = "nogil"
    /\ \E t \in Threads, u \in Threads :
         /\ t # u
         /\ TstateContainer(build, t) = TstateContainer(build, u)
         /\ last' = [op |-> "Race", tstate |-> t, ret |-> NULL, by |-> u]
    /\ assertion' = "data race"
    /\ UNCHANGED <<perfVars, memVars, allocVars, current_object_heap, calls, thrVars,
                   flVars, refVars>>

ThrNext ==
    \/ ThrNew
    \/ ThrFree
    \/ ThrPush
    \/ ThrPop
    \/ ThrClear
    \/ ThrRace

SpecThr == ThrInit /\ [][ThrNext]_vars

\* ------------------------------------------------ the trace logger (_PyPerf)

MAX_LOG_LINES == 40
MAX_LOG_LINE_LEN == 40
MAX_LOG_LEN == MAX_LOG_LINES * MAX_LOG_LINE_LEN
NSEC_PER_SEC == 1000000000
\* The value below which _log_info_clock multiplies nsec by ten.
ClockPadLimit == 10000000

\* The longest function name, the longest argument and the most arguments
\* of a program that is traced.
MaxNameLen == 40
MaxArgLen == 1650
MaxArgc == 2

\* The characters printf writes for %ld, and for %0<w>ld.
RECURSIVE Digits(_)
Digits(n) == IF n < 10 THEN 1 ELSE 1 + Digits(n \div 10)
LenLd(n) == IF n < 0 THEN 1 + Digits(0 - n) ELSE Digits(n)
LenLdPad(n, w) == IF LenLd(n) < w THEN w ELSE LenLd(n)

\* timespec_sub
timespec_sub(after, before) ==
    LET sec == after.tv_sec - before.tv_sec
        nsec == after.tv_nsec - before.tv_nsec
    IN  IF nsec < 0
        THEN [tv_sec |-> sec - 1, tv_nsec |-> nsec + NSEC_PER_SEC]
        ELSE [tv_sec |-> sec, tv_nsec |-> nsec]

\* _render_argv: strlen of the string it builds from arguments of the
\* lengths argv (each argument and a space, the last space overwritten by
\* the NUL).
RECURSIVE SumLen(_)
SumLen(q) == IF q = <<>> THEN 0 ELSE Head(q) + SumLen(Tail(q))
_render_argv(argv) == (Len(argv) + SumLen(argv)) - 1

\* _count_digits (val > 0 is asserted by the code)
RECURSIVE _count_digits(_)
_count_digits(val) == IF val = 0 THEN 0 ELSE 1 + _count_digits(val \div 10)

\* _get_filename_default for a name of namelen characters: the bytes it
\* allocates and the bytes sprintf writes, the NUL included.
_get_filename_default(namelen, started) ==
    LET suffix == ".trace"
        digits == _count_digits(started)
        time_width == IF digits < 6 THEN 6 ELSE digits
    IN  [alloc |-> namelen + time_width + Len(suffix) + 1,
         written |-> namelen + Len("-") + LenLdPad(started, 6) + Len(suffix) + 1]

\* The log while a call runs: n is _log_bytes_written, ev the lines written
\* to _log (where, and how many characters before the NUL) and the flushes,
\* in order, out the characters sent to the file, spin whether the call is
\* caught in a loop that does not end.
LogOf(n) == [n |-> n, ev |-> <<>>, out |-> 0, spin |-> FALSE]

\* sprintf(_get_next_logline(), ...) of a line of len characters, and
\* _log_bytes_written += strlen(buf).
LogLine(L, len) ==
    IF L.spin THEN L
    ELSE [L EXCEPT !.n = @ + len,
                   !.ev = Append(@, [kind |-> "line", at |-> L.n, len |-> len])]

\* _log_event: "%ld.%ld %d\n"
_log_event(L, time, event) ==
    LogLine(L, LenLd(time.tv_sec) + LenLd(time.tv_nsec) + LenLd(event)
               + Len(". \n"))

\* _log_event_with_data: "%ld.%ld %d %d\n"
_log_event_with_data(L, time, event, data) ==
    LogLine(L, LenLd(time.tv_sec) + LenLd(time.tv_nsec) + LenLd(event)
               + LenLd(data) + Len(".  \n"))

\* _log_info: "# %s: %s\n" with a text of textlen characters
_log_info(L, label, textlen) ==
    LogLine(L, Len("# : \n") + Len(label) + textlen)

\* _log_info_amount: "# %s: %ld %s\n"
_log_info_amount(L, label, value, units) ==
    LogLine(L, Len("# :  \n") + Len(label) + LenLd(value) + Len(units))

\* The loop of _log_info_clock: nsec is multiplied by ten while it is below
\* ClockPadLimit.  NoReturn when an iteration leaves nsec as it was, the
\* condition still true: the loop then runs for ever.
NoReturn == 0 - 1
RECURSIVE ClockPad(_)
ClockPad(nsec) ==
    IF nsec >= ClockPadLimit THEN nsec
    ELSE IF nsec * 10 = nsec THEN NoReturn
    ELSE ClockPad(nsec * 10)

\* _log_info_clock: "# %s: %ld.%ld s (on clock)\n"
_log_info_clock(L, label, ts) ==
    LET nsec == ClockPad(ts.tv_nsec) IN
    IF L.spin THEN L
    ELSE IF nsec = NoReturn THEN [L EXCEPT !.spin = TRUE]
    ELSE LogLine(L, Len("# : . s (on clock)\n") + Len(label)
                    + LenLd(ts.tv_sec) + LenLd(nsec))

\* _flush_log: the log goes to the file and is empty again; with record, a
\* line "# log written: %ld.%09ld s\n" is then written to it.
_flush_log(L, record, elapsed) ==
    IF L.spin THEN L
    ELSE LET F == [L EXCEPT !.out = @ + L.n, !.n = 0,
                            !.ev = Append(@, [kind |-> "flush", at |-> L.n,
                                              len |-> 0])]
         IN  IF record
             THEN LogLine(F, Len("# log written: . s\n")
                             + LenLd(elapsed.tv_sec)
                             + LenLdPad(elapsed.tv_nsec, 9))
             ELSE F

\* _flush_log_if_full
_flush_log_if_full(L, elapsed) ==
    IF L.n + MAX_LOG_LINE_LEN > MAX_LOG_LEN
    THEN _flush_log(L, TRUE, elapsed)
    ELSE L

\* _PyPerf_Event
MAIN_INIT == 0
MAIN_FINI == 1
CEVAL_ENTER == 2
CEVAL_EXIT == 3
CEVAL_LOOP_ENTER == 4
CEVAL_OP == 8

\* What a call leaves behind: the log, whether the trace file is open, the
\* position of the end-clock line, and the file name buffer it filled.
NoName == [alloc |-> 0, written |-> 0]
Outcome(L, file, endpos, fname) ==
    [L |-> L, file |-> file, endpos |-> endpos, fname |-> fname]
NoElapsed == [tv_sec |-> 0, tv_nsec |-> 0]

\* _PyPerf_Trace
_PyPerf_Trace(n, file, endpos, event, time, el) ==
    IF file
    THEN Outcome(_flush_log_if_full(_log_event(LogOf(n), time, event), el),
                 file, endpos, NoName)
    ELSE Outcome(LogOf(n), file, endpos, NoName)

\* _PyPerf_TraceToFile
_PyPerf_TraceToFile(n, file, endpos, event, time, el) ==
    IF file
    THEN Outcome(_flush_log(_log_event(LogOf(n), time, event), TRUE, el),
                 file, endpos, NoName)
    ELSE Outcome(LogOf(n), file, endpos, NoName)

\* _PyPerf_TraceOp
_PyPerf_TraceOp(n, file, endpos, op, time, el) ==
    IF file
    THEN Outcome(_flush_log_if_full(
                     _log_event_with_data(LogOf(n), time, CEVAL_OP, op), el),
                 file, endpos, NoName)
    ELSE Outcome(LogOf(n), file, endpos, NoName)

\* The body _PyPerf_TraceFrameEnter and _PyPerf_TraceFrameExit share, for a
\* function name of namelen characters.
TraceFrame(n, file, endpos, namelen, event, time, el1, el2) ==
    IF file
    THEN LET L1 == _log_info(LogOf(n), "func", namelen)
             L2 == _flush_log_if_full(L1, el1)
             L3 == _log_event(L2, time, event)
         IN  Outcome(_flush_log_if_full(L3, el2), file, endpos, NoName)
    ELSE Outcome(LogOf(n), file, endpos, NoName)

\* _PyPerf_TraceFrameEnter
_PyPerf_TraceFrameEnter(n, file, endpos, namelen, time, el1, el2) ==
    TraceFrame(n, file, endpos, namelen, CEVAL_ENTER, time, el1, el2)

\* _PyPerf_TraceFrameExit
_PyPerf_TraceFrameExit(n, file, endpos, namelen, time, el1, el2) ==
    TraceFrame(n, file, endpos, namelen, CEVAL_EXIT, time, el1, el2)

\* _PyPerf_TraceInit.  A call caught in _log_info_clock has opened the file
\* and written the first two header lines.
_PyPerf_TraceInit(n, endpos, args, started, started_clock, time) ==
    LET fname == _get_filename_default(Len("eval_loop"), started)
        L1 == IF args.use_bytes_argv
              THEN _log_info(LogOf(n), "argv", _render_argv(args.argv))
              ELSE _log_info(LogOf(n), "argv", Len("<unknown>"))
        L2 == _log_info_amount(L1, "start time", started, "s (since epoch)")
        L3 == _flush_log(L2, FALSE, NoElapsed)
        L4 == _log_info_clock(L3, "start clock", started_clock)
        L5 == _flush_log(L4, FALSE, NoElapsed)
        L6 == _log_info_clock(L5, "end clock", started_clock)
        L7 == _flush_log(L6, FALSE, NoElapsed)
        L8 == _log_event(L7, time, MAIN_INIT)
        L9 == _flush_log(L8, FALSE, NoElapsed)
    IN  Outcome(L9, TRUE, IF L5.spin THEN endpos ELSE L5.out, fname)

\* _PyPerf_TraceFini
_PyPerf_TraceFini(n, file, endpos, time, ended_clock) ==
    IF ~file THEN Outcome(LogOf(n), file, endpos, NoName)
    ELSE LET L1 == _log_event(LogOf(n), time, MAIN_FINI)
             L2 == _flush_log(L1, FALSE, NoElapsed)
         IN  IF endpos >= 0
             THEN LET L3 == _log_info_clock(L2, "end clock", ended_clock)
                      L4 == _flush_log(L3, FALSE, NoElapsed)
                  IN  Outcome(L4, L4.spin, 0, NoName)
             ELSE Outcome(L2, FALSE, endpos, NoName)

\* ------------------------------------------------- a program that is traced

\* What the clocks answer: CLOCK_MONOTONIC readings, with tv_nsec at its
\* lowest, with one digit and with nine.
Clocks == [tv_sec : {12345}, tv_nsec : {0, 5, 123456789}]
\* The reading _log_event takes.
EventClocks == {[tv_sec |-> 12345, tv_nsec |-> 123456789]}
\* The two readings _flush_log takes around its fprintf, the later one in
\* the next second.
FlushClocks ==
    {<<[tv_sec |-> 12345, tv_nsec |-> 123456789],
       [tv_sec |-> 12346, tv_nsec |-> 5]>>}
Elapsed(fc) == timespec_sub(fc[2], fc[1])
\* time(NULL) when tracing starts: fewer than six digits, and ten.
StartTimes == {5, 1700000000}
\* Function names: a short one, the longest whose line fits
\* MAX_LOG_LINE_LEN with its NUL, and a longer one.
NameLens == {4, MAX_LOG_LINE_LEN - Len("# func: \n") - 1, MaxNameLen}
\* _PyArgv: no bytes argv, or a short argv[0] and up to MaxArgc - 1 long
\* arguments.
ArgvSamples ==
    {<<6>> \o [i \in 1..(k - 1) |-> MaxArgLen] : k \in 2..MaxArgc}
PyArgvs ==
    {[use_bytes_argv |-> FALSE, argv |-> <<>>]}
    \cup {[use_bytes_argv |-> TRUE, argv |-> a] : a \in ArgvSamples}
\* Opcodes passed to _PyPerf_TraceOp.
Opcodes == {100}
\* Events passed to _PyPerf_Trace.
TraceEvents == {CEVAL_LOOP_ENTER}

\* A write of the call went past the end of _log or of the file name buffer.
OutOfBounds(r) ==
    \/ \E i \in DOMAIN r.L.ev :
          /\ r.L.ev[i].kind = "line"
          /\ r.L.ev[i].at + r.L.ev[i].len + 1 > MAX_LOG_LEN
    \/ r.fname.written > r.fname.alloc

\* The state after a call with outcome r.  A write out of bounds damages
\* what lies behind the buffer (harm), or lands where nothing is kept.
PerfCommit(op, r, harm) ==
    /\ harm => OutOfBounds(r)
    /\ _log_bytes_written' = r.L.n
    /\ _trace_file' = r.file
    /\ _endtime_pos' = r.endpos
    /\ perfpc' = IF r.L.spin THEN "_log_info_clock" ELSE "idle"
    /\ assertion' = IF harm THEN "memory corrupted" ELSE "none"
    /\ last' = [op |-> op, pre |-> _log_bytes_written, ev |-> r.L.ev,
                fname |-> r.fname, returned |-> ~r.L.spin]
    /\ UNCHANGED <<memVars, flVars, refVars, allocVars, tstateVars>>

PerfReady == assertion = "none" /\ perfpc = "idle"

PerfInitial ==
    /\ PerfIdle
    /\ TstateIdle
    /\ RefIdle
    /\ FLIdle
    /\ AllocIdle
    /\ memword = <<>>
    /\ memtype = <<>>
    /\ assertion = "none"
    /\ last = [op |-> "Start"]

PerfInit ==
    /\ PerfReady
    /\ ~_trace_file
    /\ \E args \in PyArgvs, started \in StartTimes, sc \in Clocks,
          time \in EventClocks, harm \in BOOLEAN :
         PerfCommit("_PyPerf_TraceInit",
                    _PyPerf_TraceInit(_log_bytes_written, _endtime_pos, args,
                                      started, sc, time), harm)

PerfTrace ==
    /\ PerfReady
    /\ \E event \in TraceEvents, time \in EventClocks, fc \in FlushClocks,
          harm \in BOOLEAN :
         PerfCommit("_PyPerf_Trace",
                    _PyPerf_Trace(_log_bytes_written, _trace_file,
                                  _endtime_pos, event, time, Elapsed(fc)),
                    harm)

PerfTraceToFile ==
    /\ PerfReady
    /\ \E event \in TraceEvents, time \in EventClocks, fc \in FlushClocks,
          harm \in BOOLEAN :
         PerfCommit("_PyPerf_TraceToFile",
                    _PyPerf_TraceToFile(_log_bytes_written, _trace_file,
                                        _endtime_pos, event, time,
                                        Elapsed(fc)), harm)

PerfTraceOp ==
    /\ PerfReady
    /\ \E op \in Opcodes, time \in EventClocks, fc \in FlushClocks,
          harm \in BOOLEAN :
         PerfCommit("_PyPerf_TraceOp",
                    _PyPerf_TraceOp(_log_bytes_written, _trace_file,
                                    _endtime_pos, op, time, Elapsed(fc)),
                    harm)

PerfFrameEnter ==
    /\ PerfReady
    /\ \E namelen \in NameLens, time \in EventClocks, fc1 \in FlushClocks,
          fc2 \in FlushClocks, harm \in BOOLEAN :
         PerfCommit("_PyPerf_TraceFrameEnter",
                    _PyPerf_TraceFrameEnter(_log_bytes_written, _trace_file,
                                            _endtime_pos, namelen, time,
                                            Elapsed(fc1), Elapsed(fc2)),
                    harm)

PerfFrameExit ==
    /\ PerfReady
    /\ \E namelen \in NameLens, time \in EventClocks, fc1 \in FlushClocks,
          fc2 \in FlushClocks, harm \in BOOLEAN :
         PerfCommit("_PyPerf_TraceFrameExit",
                    _PyPerf_TraceFrameExit(_log_bytes_written, _trace_file,
                                           _endtime_pos, namelen, time,
                                           Elapsed(fc1), Elapsed(fc2)),
                    harm)

PerfFini ==
    /\ PerfReady
    /\ \E time \in EventClocks, ec \in Clocks, harm \in BOOLEAN :
         PerfCommit("_PyPerf_TraceFini",
                    _PyPerf_TraceFini(_log_bytes_written, _trace_file,
                                      _endtime_pos, time, ec), harm)

PerfNext ==
    \/ PerfInit
    \/ PerfTrace
    \/ PerfTraceToFile
    \/ PerfTraceOp
    \/ PerfFrameEnter
    \/ PerfFrameExit
    \/ PerfFini

SpecPerf == PerfInitial /\ [][PerfNext]_vars

\* ------------------------------------------------------------------ claims

Pops == {"Pop", "PopMem"}

\* C1: after _PyFreeList_Init and any sequence of Push, Free and Pop calls
\* (Push on a full list and Pop on an empty one included) available stays
\* within 0..capacity, and assert(fl->available <= fl->capacity) in Pop
\* never fails.
C1_AvailableInRange ==
    /\ 0 <= fl.available
    /\ fl.available <= fl.capacity
    /\ assertion # "available <= capacity"

\* A Push was refused by a full list of non-zero capacity.
C1_Witness ==
    /\ last.op = "Push"
    /\ last.ret = 0
    /\ fl.capacity > 0
    /\ fl.available = 0

\* C3: Push with available > 0 returns 1, makes the block the head with its
\* first word holding the previous head, and lowers available by one; Push
\* with available = 0 returns 0 and changes neither the list nor the block.
C3_PushContract ==
    last.op = "Push" =>
        IF last.pre.available > 0
        THEN /\ last.ret = 1
             /\ fl.freelist = last.obj
             /\ memword[last.obj] = last.pre.freelist
             /\ fl.available = last.pre.available - 1
             /\ fl.capacity = last.pre.capacity
        ELSE /\ last.ret = 0
             /\ fl = last.pre
             /\ memword[last.obj] = last.preword

\* A Push succeeded on top of an earlier entry.
C3_Witness ==
    /\ last.op = "Push"
    /\ last.ret = 1
    /\ last.pre.freelist # NULL
    /\ memword[last.obj] = last.pre.freelist

\* C4: Pop on a non-empty list returns the head, makes the head's successor
\* the head and raises available by one; Pop on an empty list returns NULL
\* and leaves the list as it was.
C4_PopContract ==
    last.op \in Pops =>
        IF last.pre.freelist # NULL
        THEN /\ last.ret = last.pre.freelist
             /\ fl.freelist = last.preword
             /\ fl.available = last.pre.available + 1
             /\ fl.capacity = last.pre.capacity
        ELSE /\ last.ret = NULL
             /\ fl = last.pre

\* A Pop returned the head of a list of two.
C4_Witness ==
    /\ last.op \in Pops
    /\ last.ret # NULL
    /\ fl.freelist # NULL
    /\ fl.freelist # last.ret

\* C5: from Init(N) the list is empty with available = N; the first N Push
\* calls with no Pop between succeed, the (N+1)th fails, and for N >= 1 a
\* Pop right after returns one of the blocks pushed.
C5_FillThenOverflow ==
    /\ last.op = "Init" => fl.freelist = NULL /\ fl.available = fl.capacity
    /\ (last.op = "Push" /\ 1 <= last.streak /\ last.streak <= fl.capacity)
          => last.ret = 1
    /\ (last.op = "Push" /\ last.streak = fl.capacity + 1) => last.ret = 0
    /\ (last.op \in Pops /\ last.streak = last.pre.capacity + 1
                         /\ last.pre.capacity >= 1)
          => last.ret # NULL /\ last.ret \in last.pushed

\* The Pop after MaxCapacity + 1 Push calls on a list of capacity MaxCapacity.
C5_Witness ==
    /\ last.op \in Pops
    /\ last.pre.capacity = MaxCapacity
    /\ last.streak = MaxCapacity + 1
    /\ last.ret \in last.pushed

\* C8: _PyFreeList_Free either retains obj (available > 0) without calling
\* dofree, or calls dofree(obj) once and leaves the list unchanged
\* (available = 0); never both.
C8_FreeRetainsOrReleases ==
    last.op = "Free" =>
        IF last.pre.available > 0
        THEN /\ last.dofree = <<>>
             /\ fl.freelist = last.obj
             /\ fl.available = last.pre.available - 1
        ELSE /\ last.dofree = <<last.obj>>
             /\ fl = last.pre
             /\ memword[last.obj] = last.preword

\* _PyFreeList_Free fell back to dofree on a full list that holds blocks.
C8_Witness ==
    /\ last.op = "Free"
    /\ last.dofree = <<last.obj>>
    /\ fl.freelist # NULL

\* C2: in both builds, Duplicate of a non-null reference followed by Close
\* of the original or of the copy leaves the target's count where it was
\* before the Duplicate and does not destroy the target.
C2_DupCloseRoundTrip ==
    (/\ last.op = "CLOSE"
     /\ last.prev.op = "DUP"
     /\ last.slot \in {last.prev.src, last.prev.dst})
        => /\ ob_refcnt[last.prev.obj] = last.prev.rc
           /\ dealloc[last.prev.obj] = last.prev.dl
           /\ assertion = "none"

\* An owned reference to an object of count 1 was duplicated and the copy closed.
C2_Witness ==
    /\ last.op = "CLOSE"
    /\ last.prev.op = "DUP"
    /\ last.slot = last.prev.dst
    /\ TagOf(last.ref) = 0
    /\ last.prev.rc = 1
    /\ last.rc = 2
    /\ ob_refcnt[last.obj] = 1

\* The request of the call recorded in l, and the free list it looks at.
ReqOf(l) == <<l.presize, l.size>>
Hit(l) == Small(ReqOf(l)) /\ by_size[ClassOf(ReqOf(l))].freelist # NULL
Returned(l) == l.op = "New" /\ assertion' = "none"

\* The recycling scenario: the first ScenCapacity frees onto the empty list
\* are retained and the next one goes to the backing allocator; the
\* allocations that follow return the retained addresses, last freed first,
\* and the one after them is a request to the backing allocator.
C6_Scenario ==
    (scen.key # <<>> /\ by_size[ClassOf(scen.key)].capacity = ScenCapacity) =>
        /\ \A i \in DOMAIN scen.rel :
              /\ i <= ScenCapacity => scen.rel[i] = 0
              /\ i = ScenCapacity + 1 => scen.rel[i] >= 1
        /\ \A j \in DOMAIN scen.got :
              /\ j <= ScenCapacity =>
                    /\ scen.got[j].ret = scen.freed[ScenCapacity + 1 - j]
                    /\ scen.got[j].nalloc = 0
              /\ j = ScenCapacity + 1 => scen.got[j].nalloc = 1

\* C6 (as amended): recycling is last-in-first-out.  With a size class of
\* capacity 2, freeing three distinct objects of one presize and size
\* retains the first two and sends the third to the backing allocator, and
\* the next three allocations of that shape return the second-freed address,
\* the first-freed address, and a block of the backing allocator.  In
\* general, Allocate on a non-empty list returns block + presize, where block
\* is the block of the most recently freed, not yet re-allocated object of
\* the class.
C6_LifoRecycling ==
    [][/\ C6_Scenario'
       /\ (Returned(last') /\ Hit(last')) =>
             LET q == recyc[ClassOf(ReqOf(last'))] IN
             /\ q # <<>>
             /\ last'.ret = BlockOf(q[Len(q)]) + last'.presize]_vars

\* The scenario ran to its end on objects with a pre-header.
C6_Witness ==
    /\ scen.key = <<16, 16>>
    /\ by_size[ClassOf(scen.key)].capacity = ScenCapacity
    /\ Len(scen.got) = ScenCapacity + 1
    /\ scen.got[ScenCapacity + 1].ret # NULL
    /\ scen.got[1].ret = scen.freed[ScenCapacity]

\* C6 (as stated): the scenario, and in general Allocate on a non-empty list
\* returns the address of the most recently freed, not yet re-allocated
\* object of the class.
C6_LifoObjectAddress ==
    [][/\ C6_Scenario'
       /\ (Returned(last') /\ Hit(last')) =>
             LET q == recyc[ClassOf(ReqOf(last'))] IN
             /\ q # <<>>
             /\ last'.ret = q[Len(q)]]_vars

\* C7: _PyMem_FreeTstate on a small block that Push accepts calls no release
\* function; on any other block (list full, or oversized) it hands the block
\* to the backing allocator's release exactly once.
C7_ReleasedExactlyOnce ==
    [][last'.op = "Free" =>
          LET rq == ReqOf(last') IN
          IF Small(rq) /\ by_size[ClassOf(rq)].available # 0
          THEN last'.released = <<>>
          ELSE Len(last'.released) = 1]_vars

\* C9: Allocate of a small request whose size class list is not empty asks
\* the backing allocator for nothing, takes the head off that list and
\* returns head + presize with the requested type and a count of 1.
C9_HitRecycles ==
    [][(Returned(last') /\ Hit(last')) =>
          LET k == ClassOf(ReqOf(last'))
              head == by_size[k].freelist
          IN
          /\ last'.nalloc = 0
          /\ pool' = pool
          /\ by_size'[k].freelist = memword[head]
          /\ by_size'[k].available = by_size[k].available + 1
          /\ \A j \in SizeClasses \ {k} : by_size'[j] = by_size[j]
          /\ last'.ret = head + last'.presize
          /\ memtype'[last'.ret] = last'.tp
          /\ memword'[last'.ret] = 1]_vars

\* A recycled block was returned for a request with a pre-header: the count
\* and the type are set at block + presize (and _PyFreeList_Pop has written
\* the first word of the block).
C9_Witness ==
    /\ last.op = "New"
    /\ last.nalloc = 0
    /\ last.presize = 16
    /\ last.ret \in Addrs \ BlockAddrs
    /\ memtype[last.ret] = last.tp
    /\ memword[last.ret] = 1
    /\ memword[last.ret - last.presize] = 1

\* C10: Allocate of an oversized request, or of a small one whose size class
\* list is empty, asks the backing allocator exactly once; when that fails
\* it returns NULL and no free list (and nothing else) has changed; when it
\* succeeds it returns a fresh object of the requested type with a count of 1.
C10_MissAsksOnce ==
    [][(Returned(last') /\ ~Hit(last')) =>
          /\ last'.nalloc = 1
          /\ by_size' = by_size
          /\ IF last'.ret = NULL
             THEN /\ memword' = memword
                  /\ memtype' = memtype
                  /\ pool' = pool
                  /\ live' = live
             ELSE /\ pool[last'.ret - last'.presize] > 0
                  /\ memtype'[last'.ret] = last'.tp
                  /\ memword'[last'.ret] = 1]_vars

\* An oversized request failed while a free list held blocks.
C10_Witness ==
    /\ last.op = "New"
    /\ last.nalloc = 1
    /\ last.ret = NULL
    /\ ~Small(ReqOf(last))
    /\ \E k \in SizeClasses : by_size[k].freelist # NULL

\* C11: a freshly created mortal object of count 1 wrapped by
\* PyStackRef_FromPyObjectSteal keeps count 1; PyStackRef_DUP makes it 2; the
\* first PyStackRef_CLOSE makes it 1 and destroys nothing; the second makes
\* it 0 and destroys the object, once.
C11_OwnedLifecycle ==
    (trail.obj # NULL /\ trail.rc[1] = 1 /\ ~_Py_IsImmortal(trail.obj)) =>
        \A k \in DOMAIN trail.rc :
            /\ trail.rc[k] = <<1, 1, 2, 1, 0>>[k]
            /\ trail.dl[k] = trail.dl[1] + (IF k = Len(Lifecycle) THEN 1 ELSE 0)

\* The life ran to its end: the second Close destroyed the object.
C11_Witness ==
    /\ trail.obj = MortalObj
    /\ Len(trail.rc) = Len(Lifecycle)
    /\ ob_refcnt[MortalObj] = 0
    /\ dealloc[MortalObj] = trail.dl[1] + 1
    /\ last.op = "CLOSE"

\* C12: in both builds PyStackRef_FromPyObjectNew of an immortal object
\* returns a reference with the tag bit set, and FromPyObjectNew, DUP and
\* CLOSE on a reference to an immortal object (PyStackRef_True, False and
\* None included) change no reference count and destroy nothing, however
\* often they are repeated.
C12_ImmortalUntouched ==
    [][(last'.op \in {"FromNew", "DUP", "CLOSE"} /\ _Py_IsImmortal(last'.obj)) =>
          /\ ob_refcnt' = ob_refcnt
          /\ dealloc' = dealloc
          /\ assertion' = "none"
          /\ last'.op = "FromNew" => TagOf(last'.ret) = Py_TAG_BITS]_vars

\* With the GIL, a reference to the immortal object was duplicated and a
\* copy closed while another reference to it, from FromPyObjectNew or the
\* constant, is still on the stack.
C12_Witness ==
    /\ build = "gil"
    /\ last.op = "CLOSE"
    /\ last.obj = ImmortalObj
    /\ last.prev.op = "DUP"
    /\ \E i \in Slots : stack[i] = PyStackRef_True(build)
    /\ ob_refcnt[ImmortalObj] = _Py_IMMORTAL_INITIAL_REFCNT

\* C13 (as stated): with the GIL, PyStackRef_CLOSE of a non-null reference
\* with the tag bit set and a mortal target lowers the target's count by one,
\* and PyStackRef_CLOSE of a reference without the tag bit changes no count.
C13_TaggedOwnsCount ==
    [][(build = "gil" /\ last'.op = "CLOSE") =>
          IF TagOf(last'.ref) = 1
          THEN ~_Py_IsImmortal(last'.obj) =>
                  ob_refcnt'[last'.obj] = ob_refcnt[last'.obj] - 1
          ELSE ob_refcnt' = ob_refcnt]_vars

\* C13 (as amended): with the GIL, a reference whose tag bit is clear owns a
\* count: PyStackRef_CLOSE of a reference without the tag bit lowers the
\* target's count by one (and no other count), and PyStackRef_CLOSE of a
\* non-null reference with the tag bit set changes no count and destroys
\* nothing, whether the target is immortal or not.
C13_UntaggedOwnsCount ==
    [][(build = "gil" /\ last'.op = "CLOSE") =>
          IF TagOf(last'.ref) = 1
          THEN ob_refcnt' = ob_refcnt /\ dealloc' = dealloc
          ELSE ob_refcnt' = [ob_refcnt EXCEPT ![last'.obj] = @ - 1]]_vars

\* With the GIL, a tagged reference to a mortal object was closed and the
\* object kept its count.
C13_Witness ==
    /\ build = "gil"
    /\ last.op = "CLOSE"
    /\ TagOf(last.ref) = 1
    /\ last.obj = MortalObj
    /\ ob_refcnt[MortalObj] = last.rc
    /\ last.rc > 0

\* Stack slots holding an untagged reference to o.
UntaggedSlots(st, o) == Cardinality({i \in Slots : st[i] = o})

\* C14: in both builds PyStackRef_AsPyObjectSteal of a non-null reference
\* returns the pointer PyStackRef_AsPyObjectBorrow gives; for a reference with
\* the tag set it takes one new count on the target (Py_NewRef, which leaves
\* the count of an immortal object alone), for one without it takes none;
\* the count of a mortal target moves by the pointer returned minus the
\* owned reference consumed.
C14_StealTransfers ==
    [][(/\ last'.op = "Steal"
        /\ assertion' = "none"
        /\ ~PyStackRef_IsNull(build, last'.ref)) =>
          LET o == last'.obj IN
          /\ last'.ret = PyStackRef_AsPyObjectBorrow(last'.ref)
          /\ dealloc' = dealloc
          /\ ob_refcnt' = IF TagOf(last'.ref) = 1 /\ ~_Py_IsImmortal(o)
                          THEN [ob_refcnt EXCEPT ![o] = @ + 1] ELSE ob_refcnt
          /\ ~_Py_IsImmortal(o) =>
                ob_refcnt'[o] - ob_refcnt[o] =
                    (owned'[o] + UntaggedSlots(stack', o))
                        - (owned[o] + UntaggedSlots(stack, o))]_vars

\* A tagged reference to a mortal object was stolen: the object has one
\* count more and the caller one pointer more.
C14_Witness ==
    /\ last.op = "Steal"
    /\ assertion = "none"
    /\ TagOf(last.ref) = 1
    /\ last.obj \in {MortalObj, DeferredObj}
    /\ last.ret = last.obj
    /\ owned[last.obj] = MaxOwned

\* C15: in both builds PyStackRef_AsPyObjectSteal of PyStackRef_NULL fails an
\* assertion before a reference count is read or changed and before a
\* pointer is returned.
C15_StealNullAsserts ==
    [][(last'.op = "Steal" /\ PyStackRef_IsNull(build, last'.ref)) =>
          /\ assertion' \notin {"none", "invalid read"}
          /\ last'.nread = 0
          /\ ob_refcnt' = ob_refcnt
          /\ dealloc' = dealloc]_vars

\* C16 (as stated): PyStackRef_FromPyObjectSteal changes no count and
\* returns a tagged reference exactly when PyStackRef_FromPyObjectNew would
\* for the same object.
C16_StealTagsAsNew ==
    [][last'.op = "FromSteal" =>
          /\ ob_refcnt' = ob_refcnt
          /\ dealloc' = dealloc
          /\ TagOf(last'.ret) =
                TagOf(PyStackRef_FromPyObjectNew(build, Heap, last'.obj).ret)]_vars

\* C16 (as amended): PyStackRef_FromPyObjectSteal changes no count and
\* returns a tagged reference exactly when the target is immortal, an
\* untagged owned one otherwise.  That is the rule of FromPyObjectNew with
\* the GIL; without it FromPyObjectNew also tags the objects that opted into
\* deferred counting, which FromPyObjectSteal returns untagged.
C16_StealTagsImmortal ==
    [][last'.op = "FromSteal" =>
          LET new == PyStackRef_FromPyObjectNew(build, Heap, last'.obj).ret IN
          /\ ob_refcnt' = ob_refcnt
          /\ dealloc' = dealloc
          /\ TagOf(last'.ret) = 1 <=> _Py_IsImmortal(last'.obj)
          /\ IF build = "nogil" /\ _PyObject_HasDeferredRefcount(last'.obj)
             THEN TagOf(new) = 1 /\ TagOf(last'.ret) = 0
             ELSE TagOf(new) = TagOf(last'.ret)]_vars

\* Without the GIL, the reference to an object with deferred counting was
\* moved into a slot and is untagged.
C16_Witness ==
    /\ build = "nogil"
    /\ last.op = "FromSteal"
    /\ last.obj = DeferredObj
    /\ stack[last.slot] = DeferredObj
    /\ ob_refcnt[DeferredObj] = last.rc

\* FromPyObjectNew takes no count for obj: obj is immortal, or (without the
\* GIL, where objects can opt in) has deferred reference counting.
TagsOnNew(obj) ==
    _Py_IsImmortal(obj) \/ (build = "nogil" /\ _PyObject_HasDeferredRefcount(obj))

\* C17: PyStackRef_FromPyObjectNew leaves the caller's reference as it was;
\* for an immortal target, or one with deferred counting, it returns a tagged
\* reference and changes no count; for any other it takes exactly one count
\* and returns the untagged pointer; PyStackRef_CLOSE of the result right
\* after brings the count back to what it was.
C17_NewThenClose ==
    [][/\ last'.op = "FromNew" =>
            /\ owned' = owned
            /\ dealloc' = dealloc
            /\ PyStackRef_AsPyObjectBorrow(last'.ret) = last'.obj
            /\ IF TagsOnNew(last'.obj)
               THEN TagOf(last'.ret) = 1 /\ ob_refcnt' = ob_refcnt
               ELSE /\ TagOf(last'.ret) = 0
                    /\ ob_refcnt' = [ob_refcnt EXCEPT ![last'.obj] = @ + 1]
       /\ (/\ last'.op = "CLOSE"
           /\ last.op = "FromNew"
           /\ last'.slot = last.slot) =>
            /\ ob_refcnt'[last.obj] = last.rc
            /\ dealloc' = dealloc
            /\ assertion' = "none"]_vars

\* The reference FromPyObjectNew made for a mortal object was closed right
\* away: the count went up by one and came back.
C17_Witness ==
    /\ last.op = "CLOSE"
    /\ last.prev.op = "FromNew"
    /\ last.prev.slot = last.slot
    /\ last.obj = MortalObj
    /\ last.rc = last.prev.rc + 1
    /\ ob_refcnt[MortalObj] = last.prev.rc
    /\ dealloc[MortalObj] = last.prev.dl

\* The pointer a reference word stands for: the word itself, or the word
\* less the tag bit.
Denotes(ref) == CHOOSE p \in Objects \cup {NULL} : ref \in {p, p + 1}
\* The slot the call recorded in l wrote.
Written(l) ==
    IF l.op \in {"Const", "FromSteal", "FromNew", "FromWithCount", "Steal",
                 "HeapSafe", "CLOSE", "XCLOSE", "CLEAR",
                 "FromTagged"}
    THEN {l.slot}
    ELSE IF l.op = "DUP" THEN {l.dst} ELSE {}

\* C18: a reference made by PyStackRef_FromPyObjectNew or
\* PyStackRef_FromPyObjectSteal for the pointer p, and every copy of it that
\* PyStackRef_DUP or PyStackRef_HeapSafe returns, stands for p as long as it
\* is in its slot, and PyStackRef_AsPyObjectBorrow returns p for it, changing
\* no count and no reference.
C18_BorrowReturnsPointer ==
    [][/\ (last'.op \in {"FromNew", "FromSteal"} /\ assertion' = "none") =>
            stack'[last'.slot] \in {last'.obj, last'.obj + 1}
       /\ (last'.op = "DUP" /\ assertion' = "none") =>
            Denotes(stack'[last'.dst]) = Denotes(stack[last'.src])
       /\ (last'.op = "HeapSafe" /\ assertion' = "none") =>
            Denotes(stack'[last'.slot]) = Denotes(stack[last'.slot])
       /\ \A i \in Slots \ Written(last') : stack'[i] = stack[i]
       /\ last'.op = "Borrow" =>
            /\ last'.ret = Denotes(last'.ref)
            /\ ob_refcnt' = ob_refcnt
            /\ dealloc' = dealloc
            /\ stack' = stack]_vars

\* Borrow returned the object of a tagged reference that HeapSafe or DUP
\* returned, or FromPyObjectNew made.
C18_Witness ==
    /\ last.op = "Borrow"
    /\ TagOf(last.ref) = 1
    /\ last.ret = DeferredObj
    /\ \E i \in Slots \ {last.slot} : stack[i] = last.ref

\* C19: for any two references, null ones included, PyStackRef_Is(a, b) is
\* true exactly when PyStackRef_AsPyObjectBorrow gives the same pointer for
\* both; a tagged and an untagged reference to one object are the same.
C19_IsComparesPointers ==
    last.op = "Is" =>
        /\ last.ret <=> (PyStackRef_AsPyObjectBorrow(last.a)
                            = PyStackRef_AsPyObjectBorrow(last.b))
        /\ last.ret <=> (Denotes(last.a) = Denotes(last.b))

\* A tagged and an untagged reference to the same object compared identical.
C19_Witness ==
    /\ last.op = "Is"
    /\ last.ret
    /\ TagOf(last.a) = 1
    /\ TagOf(last.b) = 0
    /\ last.b \in Objects

\* C20: the result h of PyStackRef_HeapSafe(r) is heap-safe and the same
\* reference as r by PyStackRef_Is.  When r is heap-safe already (null,
\* untagged, or to an immortal object) h has the bits of r and no count
\* changes; otherwise the target's count goes up by exactly one and h is the
\* untagged pointer.  Without the GIL every reference is heap-safe and
\* PyStackRef_HeapSafe is the identity.
C20_HeapSafe ==
    [][(last'.op = "HeapSafe" /\ assertion' = "none") =>
          LET r == last'.ref
              h == last'.ret
              safe == \/ build = "nogil"
                      \/ r = PyStackRef_NULL(build)
                      \/ TagOf(r) = 0
                      \/ Denotes(r) = ImmortalObj
          IN
          /\ PyStackRef_IsHeapSafe(build, r) <=> safe
          /\ PyStackRef_IsHeapSafe(build, h)
          /\ PyStackRef_Is(h, r)
          /\ stack'[last'.slot] = h
          /\ dealloc' = dealloc
          /\ IF safe
             THEN h = r /\ ob_refcnt' = ob_refcnt
             ELSE /\ h = Denotes(r)
                  /\ ob_refcnt' = [ob_refcnt EXCEPT ![Denotes(r)] = @ + 1]]_vars

\* With the GIL, a tagged reference to a mortal object was made heap-safe:
\* it is untagged now and the object has one count more.
C20_Witness ==
    /\ build = "gil"
    /\ last.op = "HeapSafe"
    /\ assertion = "none"
    /\ TagOf(last.ref) = 1
    /\ last.obj = MortalObj
    /\ stack[last.slot] = MortalObj
    /\ ob_refcnt[MortalObj] >= 2

\* C22: PyStackRef_XCLOSE of the null sentinel fails no assertion and changes
\* no count, in both builds; of a reference that is not null it does what
\* PyStackRef_CLOSE does: nothing for a tagged reference, one count less for
\* an untagged one, and the destructor when that was the last.
C22_XCloseToleratesNull ==
    [][last'.op = "XCLOSE" =>
          LET ref == last'.ref
              c == PyStackRef_CLOSE(build, Heap, ref) IN
          IF PyStackRef_IsNull(build, ref)
          THEN /\ assertion' = "none"
               /\ ob_refcnt' = ob_refcnt
               /\ dealloc' = dealloc
          ELSE /\ assertion' = c.ok
               /\ ob_refcnt' = c.h.rc
               /\ dealloc' = c.h.dl
               /\ TagOf(ref) = 1 => ob_refcnt' = ob_refcnt /\ dealloc' = dealloc
               /\ TagOf(ref) = 0 =>
                      ob_refcnt' = [ob_refcnt EXCEPT ![ref] = @ - 1]]_vars

\* XCLOSE ran on a null slot and the program went on.
C22_Witness ==
    /\ last.op = "XCLOSE"
    /\ PyStackRef_IsNull(build, last.ref)
    /\ assertion = "none"
    /\ build = "gil"

\* C21: PyStackRef_CLEAR leaves null in the slot, in both builds; a destructor
\* that the close of the old value runs finds null in the slot, not the
\* reference being closed; PyStackRef_CLEAR of a slot that holds null changes
\* no count.
C21_ClearNullsFirst ==
    [][last'.op = "CLEAR" =>
          /\ PyStackRef_IsNull(build, stack'[last'.slot])
          /\ dealloc' # dealloc => last'.seen = PyStackRef_NULL(build)
          /\ PyStackRef_IsNull(build, last'.ref) =>
                 /\ ob_refcnt' = ob_refcnt
                 /\ dealloc' = dealloc
                 /\ assertion' = "none"]_vars

\* Clear closed the last reference to an object: its destructor ran and found
\* null in the slot.
C21_Witness ==
    /\ last.op = "CLEAR"
    /\ last.obj = MortalObj
    /\ last.seen = PyStackRef_NULL(build)
    /\ ob_refcnt[MortalObj] = 0

\* C23: a constructor called on a pointer that has the tag bit set already
\* returns no reference, in both builds: it fails an assertion.
C23_TaggedPointerRejected ==
    [][last'.op = "FromTagged" => assertion' # "none"]_vars

\* The arena the two type properties call for.
ArenaFor(tp) ==
    CASE tp.preheader -> "_Py_MIMALLOC_HEAP_GC_PRE"
      [] ~tp.preheader /\ tp.gc -> "_Py_MIMALLOC_HEAP_GC"
      [] ~tp.preheader /\ ~tp.gc -> "_Py_MIMALLOC_HEAP_OBJECT"

\* C24: without the GIL, when a typed allocation or reallocation of a thread
\* reaches the backing allocator the thread's current heap is the one of the
\* call's own type, whatever an enclosing call chose; when the call returns,
\* with memory or without, the thread's current heap is the default object
\* heap.  The other threads' current heaps are not touched.
C24_HeapSetThenRestored ==
    [][build = "nogil" =>
        \A t \in Threads :
          /\ Len(calls'[t]) > Len(calls[t]) =>
                LET c == calls'[t][Len(calls'[t])] IN
                /\ current_object_heap'[t] = HeapOf(t, ArenaFor(c.tp))
                /\ c.heap = current_object_heap'[t]
          /\ Len(calls'[t]) < Len(calls[t]) =>
                current_object_heap'[t] = HeapOf(t, "_Py_MIMALLOC_HEAP_OBJECT")
          /\ Len(calls'[t]) = Len(calls[t]) =>
                current_object_heap'[t] = current_object_heap[t]]_vars

\* A call nested in a call of another arena returned without memory: the
\* current heap is the default one although the outer call chose the GC heap.
C24_Witness ==
    /\ build = "nogil"
    /\ last.op = "Return"
    /\ ~last.ok
    /\ Len(calls[last.tstate]) = 1
    /\ calls[last.tstate][1].heap.tag = "_Py_MIMALLOC_HEAP_GC"
    /\ current_object_heap[last.tstate].tag = "_Py_MIMALLOC_HEAP_OBJECT"

\* C25: without the GIL, the heap a typed allocation or reallocation selects
\* is one of the three heaps of the calling thread for every combination of
\* the two type properties: the GC-with-pre-header heap for a pre-header
\* type whatever its GC flag, the GC heap for a GC type without pre-header,
\* the object heap otherwise; calls for the same type on a thread select
\* the same heap, be they allocations or reallocations.
C25_ArenaSelection ==
    build = "nogil" =>
        \A t \in Threads : \A k \in DOMAIN calls[t] :
            LET c == calls[t][k] IN
            /\ c.heap.tstate = t
            /\ c.heap.tag \in HeapTags
            /\ c.tp.preheader => c.heap.tag = "_Py_MIMALLOC_HEAP_GC_PRE"
            /\ (~c.tp.preheader /\ c.tp.gc) => c.heap.tag = "_Py_MIMALLOC_HEAP_GC"
            /\ (~c.tp.preheader /\ ~c.tp.gc) =>
                   c.heap.tag = "_Py_MIMALLOC_HEAP_OBJECT"
            /\ \A j \in DOMAIN calls[t] :
                   calls[t][j].tp = c.tp => calls[t][j].heap = c.heap

\* A reallocation nested in an allocation of the same pre-header GC type:
\* both selected the GC-with-pre-header heap of their thread.
C25_Witness ==
    /\ build = "nogil"
    /\ \E t \in Threads :
         /\ Len(calls[t]) = 2
         /\ calls[t][1].fn = "Malloc"
         /\ calls[t][2].fn = "Realloc"
         /\ calls[t][1].tp = [preheader |-> TRUE, gc |-> TRUE]
         /\ calls[t][2].tp = calls[t][1].tp
         /\ calls[t][2].heap = HeapOf(t, "_Py_MIMALLOC_HEAP_GC_PRE")

\* C26: without the GIL, a step of a thread changes no free list of a
\* container other than the thread's own, and a block leaves a free list only
\* in a call of the thread that put it there.
C26_OwnContainerOnly ==
    [][(build = "nogil" /\ last'.op \in {"New", "Free", "Push", "Pop"}) =>
          /\ \A id \in ContainerIds \ {last'.tstate} :
                 freelists'[id] = freelists[id]
          /\ last'.by = last'.tstate]_vars

\* The blocks on the list f, head first, as far as n links lead.
RECURSIVE ChainFrom(_, _, _)
ChainFrom(head, mw, n) ==
    IF head = NULL \/ head \notin DOMAIN mw \/ n = 0 THEN <<>>
    ELSE <<head>> \o ChainFrom(mw[head], mw, n - 1)
Chain(f, mw) == ChainFrom(f.freelist, mw, NBlocks + 1)
\* How often block b is on the lists of container c.
Retained(c, mw, b) ==
    LET Count(q) == Cardinality({i \in DOMAIN q : BlockOf(q[i]) = b})
        Sum[k \in (0..NB_SMALL_SIZE_CLASSES)] ==
            IF k = 0 THEN 0
            ELSE Sum[k - 1] + (IF (k - 1) \in DOMAIN c.by_size
                               THEN Count(Chain(c.by_size[k - 1], mw)) ELSE 0)
    IN  Sum[NB_SMALL_SIZE_CLASSES] + Count(Chain(c.floats, mw))

\* C27: when _PyObject_ClearFreeLists has run on a container, every free list
\* of the container is empty, with no block and available = capacity, and
\* each block that was on one of its lists has been handed to the release of
\* the backing allocator exactly once, and no other block.
C27_ClearDrains ==
    [][(last'.op = "Clear" /\ assertion' = "none") =>
          LET c == freelists[last'.ret]
              d == freelists'[last'.ret] IN
          /\ ListEmpty(d.floats)
          /\ \A k \in DOMAIN d.by_size : ListEmpty(d.by_size[k])
          /\ \A b \in BlockAddrs :
                 Cardinality({i \in DOMAIN last'.released :
                                BlockOf(last'.released[i]) = b})
                   = IF Retained(c, memword, b) > 0 THEN 1 ELSE 0]_vars

\* The objects whose count is the plain number of strong references: not
\* immortal, and without the deferred bias of the build without the GIL.
Counted == {o \in Objects : /\ ~_Py_IsImmortal(o)
                            /\ ~(build = "nogil" /\ _PyObject_HasDeferredRefcount(o))}
\* The holders of a count of o: untagged stack references and the strong
\* references of C callers.
Holders(st, ow, o) == UntaggedSlots(st, o) + ow[o]

C29_ChainWellFormed ==
    LET ch == Chain(fl, memword) IN
    /\ \A i, j \in DOMAIN ch : ch[i] = ch[j] => i = j
    /\ Len(ch) <= NBlocks
    /\ ch # <<>> => memword[ch[Len(ch)]] = NULL
    /\ Range(ch) \subseteq BlockAddrs
    /\ Len(ch) = _PyFreeList_Size(fl)
    /\ fl.freelist = NULL <=> fl.available = fl.capacity

\* Two blocks are on the list, the one pushed after a Pop at the head.
C29_Witness ==
    /\ Len(Chain(fl, memword)) = 2
    /\ streak < 0
    /\ last.op = "Push"
    /\ fl.freelist = last.obj
    /\ fl.available = 0

\* How many live objects lie in block b.
LiveIn(b) ==
    LET objs == {o \in BagToSet(live) : BlockOf(o.addr) = b}
        RECURSIVE Total(_)
        Total(S) == IF S = {} THEN 0
                    ELSE LET o == CHOOSE x \in S : TRUE IN
                         CopiesIn(o, live) + Total(S \ {o})
    IN  Total(objs)
\* The blocks on the free lists of by_size.
OnLists ==
    UNION {{BlockOf(a) : a \in Range(Chain(by_size[k], memword))} :
             k \in SizeClasses}

\* C30: no block is live and recyclable at once: no block of a live object
\* is on a free list, no block holds two live objects, and no block on a
\* free list has been handed to the release of the backing allocator.
C30_NeverLiveAndRecyclable ==
    \A b \in BlockAddrs :
        /\ LiveIn(b) <= 1
        /\ LiveIn(b) = 1 => b \notin OnLists
        /\ b \in OnLists => pool[b] = 0

\* The alignment the size classes are multiples of, and a size rounded up to
\* it.
ALIGNMENT == 2 ^ ALIGNMENT_SHIFT
RoundUp(s) == ((s + ALIGNMENT - 1) \div ALIGNMENT) * ALIGNMENT
\* The lists of by_size a step changes.
ChangedLists == {k \in DOMAIN by_size : by_size'[k] # by_size[k]}

\* C31: a call of _PyObject_NewTstate or _PyMem_FreeTstate with total size
\* s = presize + size touches no list when s > SMALL_REQUEST_THRESHOLD, and
\* otherwise only the list whose index k is in [0, NB_SMALL_SIZE_CLASSES)
\* with s rounded up to the alignment being (k + 1) * ALIGNMENT; a block
\* served from or retained on a list does change that list; and an
\* allocation right after a retained free of the same presize and size is
\* served from the list the block was pushed on (it returns that block).
C31_SizeClassStep ==
    LET s == last'.presize + last'.size IN
    /\ s > SMALL_REQUEST_THRESHOLD => ChangedLists = {}
    /\ s <= SMALL_REQUEST_THRESHOLD =>
          ChangedLists \subseteq
              {k \in 0..(NB_SMALL_SIZE_CLASSES - 1) :
                   RoundUp(s) = (k + 1) * ALIGNMENT}
    /\ last'.op = "Free" /\ last'.released = <<>> => ChangedLists # {}
    /\ last'.op = "New" /\ last'.ret # NULL /\ last'.nalloc = 0 =>
          ChangedLists # {}
    /\ /\ last.op = "Free" /\ last.released = <<>>
       /\ last'.op = "New"
       /\ last'.presize = last.presize /\ last'.size = last.size
       => last'.ret = last.obj /\ last'.nalloc = 0
C31_SizeClassConsistent == [][C31_SizeClassStep]_vars

\* An object of the last small size class was served from its list while
\* the list of another class holds a block.
C31_Witness ==
    /\ last.op = "New"
    /\ last.presize + last.size = SMALL_REQUEST_THRESHOLD
    /\ last.presize > 0
    /\ last.nalloc = 0
    /\ last.ret # NULL
    /\ \E k \in SizeClasses : by_size[k].freelist # NULL

\* C32: every line the trace logger writes lies inside _log, its NUL
\* included (_log_bytes_written plus the length of the line and its
\* terminator is at most MAX_LOG_LEN), and after every flush the next line
\* is written at the start of _log.
C32_LogWritesInBounds ==
    last.op # "Start" =>
        \A i \in DOMAIN last.ev :
            /\ last.ev[i].kind = "line" =>
                  last.ev[i].at + last.ev[i].len + 1 <= MAX_LOG_LEN
            /\ last.ev[i].kind = "flush" /\ i < Len(last.ev) =>
                  last.ev[i + 1].at = 0

\* C33: the digit-padding loop of _log_info_clock ends for every clock value
\* with 0 <= tv_nsec < NSEC_PER_SEC, so no call of _PyPerf_TraceInit or
\* _PyPerf_TraceFini is caught in it: every call returns.
C33_ClockPaddingTerminates ==
    /\ perfpc # "_log_info_clock"
    /\ last.op \in {"_PyPerf_TraceInit", "_PyPerf_TraceFini"} => last.returned

\* C34: the buffer _get_filename_default allocates holds all that sprintf
\* writes into it with "%s-%06ld%s", the NUL included.
C34_FilenameFits ==
    last.op = "_PyPerf_TraceInit" => last.fname.alloc >= last.fname.written

====
